---- MODULE Spec2Model ----
(***************************************************************************)
(* Turn engine, map visibility and modal input handlers of the roguelike.  *)
(*                                                                         *)
(* The program state is kept in one record per subsystem; the operators    *)
(* below are the program's functions, applied to a state record `s` whose  *)
(* fields are the module's variables.  One input event is one step.        *)
(*                                                                         *)
(* The map is one row of MapWidth cells (height 1), so a position is its   *)
(* x coordinate.  MessageLog is append-only; the model keeps in `last`     *)
(* the messages the latest event appended.                                 *)
(***************************************************************************)
EXTENDS Integers, Sequences, FiniteSets, TLC

VARIABLES
    handler,        \* the active event handler (main.py: handler)
    engine,         \* Engine fields: enchant_now, enchanting_item, current_turn, ...
    game_map,       \* engine.game_map: level, tiles, visible, explored, entities
    player,         \* engine.player: position, is_alive, inventory, equipment, battler
    monsters,       \* the non-player actors of the current map
    items,          \* the Item objects by id: kind, name, stack, value, bonus
    session,        \* which events the player sends (fixed for a run of the game)
    scene,          \* a targeting scene on a square map (cone targeting on its own)
    last            \* what the latest call of handle_events did (observation only)

vars == <<handler, engine, game_map, player, monsters, items, session, scene, last>>

-----------------------------------------------------------------------------
(* Bounds of the model *)

MapWidth == 14      \* width of every generated map (height is 1)
MaxLevel == 1       \* deepest dungeon level the generator is asked for
MaxNameLen == 1     \* characters typed into an item name
MaxRun == 5         \* presses of one direction key in a row, on the square map
MaxPressed == 1     \* repeats of one direction key counted while targeting

Cells == 0 .. (MapWidth - 1)
Monsters == {"orc", "troll"}
NoOne == "-"

-----------------------------------------------------------------------------
(* Key symbols of tcod.event used by the handlers *)

K_RETURN == 13
K_ESCAPE == 27
K_PERIOD == 46
K_SLASH == 47
K_EQUALS == 61
K_a == 97
K_b == 98
K_c == 99
K_d == 100
K_e == 101
K_f == 102
K_g == 103
K_i == 105
K_n == 110
K_p == 112
K_q == 113
K_r == 114
K_s == 115
K_t == 116
K_u == 117
K_v == 118
K_x == 120
K_y == 121
K_z == 122
K_RIGHT == 1073741903
K_LEFT == 1073741904
K_DOWN == 1073741905
K_UP == 1073741906
K_LSHIFT == 1073742049

FovRadius == 12

-----------------------------------------------------------------------------
(* Records shared by the handlers *)

NoItem == "-"

Handler(name, cb) == [name |-> name, cb |-> cb]
MainGameEventHandler == Handler("MainGameEventHandler", "-")
GameOverEventHandler == Handler("GameOverEventHandler", "-")
Exited == Handler("SystemExit", "-")     \* the process has ended

Action(name, arg) == [name |-> name, arg |-> arg]
NoAction == Action("-", 0)

\* What an event method hands back to handle_events: None, a handler,
\* an Action, or an exception that leaves the method.
RNone(s) == [s |-> s, t |-> "None", h |-> MainGameEventHandler, a |-> NoAction, exc |-> "-"]
RHandler(s, h) == [s |-> s, t |-> "Handler", h |-> h, a |-> NoAction, exc |-> "-"]
RAction(s, a) == [s |-> s, t |-> "Action", h |-> MainGameEventHandler, a |-> a, exc |-> "-"]
RRaise(s, exc) == [s |-> s, t |-> "Raise", h |-> MainGameEventHandler, a |-> NoAction, exc |-> exc]

add_message(s, text) == [s EXCEPT !.last.logged = Append(@, text)]

-----------------------------------------------------------------------------
(* game_map.py: GameMap and GameWorld *)

in_bounds(x, y) == 0 <= x /\ x < MapWidth /\ 0 <= y /\ y < 1

\* GameMap.__init__: a new map has nothing visible and nothing explored.
GameMap(kind, dungeon_level, transparent, walkable) ==
    [kind |-> kind, dungeon_level |-> dungeon_level,
     transparent |-> transparent, walkable |-> walkable,
     visible |-> {}, explored |-> {}, floor |-> {}]

\* procgen.generate_town / generate_dungeon: "produce a populated map and
\* place the player".  The town is a room closed by a wall; a dungeon level
\* is an open hall holding every monster.
TownWall == 5
WalkMax == 4
DungeonStart == 0
TownStart == 1

NewMonsters == [m \in Monsters |-> [is_alive |-> TRUE, ai |-> TRUE]]
DeadMonsters == [m \in Monsters |-> [is_alive |-> FALSE, ai |-> FALSE]]
MonsterX(m) == IF m = "orc" THEN 3 ELSE 4

generate_town(s, dungeon_level) ==
    [s EXCEPT !.game_map = GameMap("town", dungeon_level, Cells \ {TownWall}, 0 .. WalkMax),
              !.last.new_map = TRUE,
              !.player.x = TownStart,
              !.monsters = DeadMonsters]

generate_dungeon(s, dungeon_level, stairs) ==
    [s EXCEPT !.game_map = GameMap("dungeon", dungeon_level, Cells, 0 .. WalkMax),
              !.last.new_map = TRUE,
              !.player.x = DungeonStart,
              !.monsters = NewMonsters]

\* Entities of the map, by kind and place.
ShopHere(s) == s.game_map.kind = "town" /\ s.player.x = 1
EnchantHere(s) == s.game_map.kind = "town" /\ s.player.x = 1
StairsHere(s) ==
    IF s.player.x = 2 /\ s.game_map.dungeon_level < MaxLevel THEN 1
    ELSE IF s.player.x = 0 /\ s.game_map.dungeon_level > 0 THEN -1
    ELSE 0

\* GameMap.actors: the living actors of the map (the player included).
actors(s) == {m \in Monsters : s.monsters[m].is_alive}
                \cup (IF s.player.is_alive THEN {"player"} ELSE {})

\* GameWorld.generate_floor
generate_floor(s, stairs) ==
    LET current_floor == s.game_map.dungeon_level + stairs
    IN IF current_floor = 0
       THEN generate_town(s, current_floor)
       ELSE generate_dungeon(s, current_floor, stairs)

-----------------------------------------------------------------------------
(* engine.py: Engine *)

Abs(n) == IF n < 0 THEN -n ELSE n
Between(a, b) == {c \in Cells : (a < c /\ c < b) \/ (b < c /\ c < a)}

\* tcod.map.compute_fov on a one-row map: a cell is lit when it is within
\* the radius and every cell between it and the viewpoint is transparent.
compute_fov(transparent, pov, radius) ==
    {c \in Cells : Abs(c - pov) <= radius /\ Between(pov, c) \subseteq transparent}

\* update_fov with explored overwritten instead of extended.
update_fov_forgets(s) ==
    LET vis == compute_fov(s.game_map.transparent, s.player.x, FovRadius)
    IN [s EXCEPT !.game_map.visible = vis,
                 !.game_map.explored = vis,
                 !.last.fov = @ + 1, !.last.steps = Append(@, "fov")]

\* update_fov with the new field of view added to the old visible grid.
update_fov_keeps_visible(s) ==
    LET vis == compute_fov(s.game_map.transparent, s.player.x, FovRadius)
    IN [s EXCEPT !.game_map.visible = s.game_map.visible \cup vis,
                 !.game_map.explored = s.game_map.explored \cup vis,
                 !.last.fov = @ + 1, !.last.steps = Append(@, "fov")]

\* Engine.update_fov: visible[:] = compute_fov(...); explored |= visible.
update_fov(s) ==
    LET vis == compute_fov(s.game_map.transparent, s.player.x, FovRadius)
    IN [s EXCEPT !.game_map.visible = vis,
                 !.game_map.explored = s.game_map.explored \cup vis,
                 !.last.fov = @ + 1, !.last.steps = Append(@, "fov")]

\* Fighter/Battler die(): the actor stops being alive and loses its AI.
die(s, who) ==
    IF who = "player"
    THEN [s EXCEPT !.player.is_alive = FALSE]
    ELSE [s EXCEPT !.monsters[who] = [is_alive |-> FALSE, ai |-> FALSE]]

\* entity.ai.perform() of one actor; `out` is what its AI decides:
\* "wait", "impossible" (raises Impossible), or <<"kill", victim>>.
AIOutcomes(m) == {<<"wait", NoOne>>, <<"impossible", NoOne>>}
                     \cup {<<"kill", v>> : v \in (Monsters \cup {"player"}) \ {m}}

ai_perform(s, m, out) ==
    LET s1 == [s EXCEPT !.last.acted = Append(@, [who |-> m, is_alive |-> s.monsters[m].is_alive,
                                                fov |-> s.last.fov]),
                        !.last.steps = Append(@, "ai")]
    IN CASE out[1] = "impossible" -> [s |-> [s1 EXCEPT !.last.ai_failed = @ \cup {m}], ok |-> FALSE]
         [] out[1] = "kill" /\ out[2] # m -> [s |-> die(s1, out[2]), ok |-> TRUE]
         [] OTHER -> [s |-> s1, ok |-> TRUE]

\* The loop body without the test of entity.ai.
enemy_turn_unguarded(s, entity, out) ==
    [s |-> ai_perform(s, entity, out).s, raised |-> FALSE]

\* The loop body without the except clause.
enemy_turn_uncaught(s, entity, out) ==
    IF s.monsters[entity].ai
    THEN LET r == ai_perform(s, entity, out) IN [s |-> r.s, raised |-> ~r.ok]
    ELSE [s |-> s, raised |-> FALSE]

\* The body of the loop of handle_enemy_turns for one entity:
\*   if entity.ai: try: entity.ai.perform() except exceptions.Impossible: pass
\* `raised` tells whether an exception leaves the loop body.
enemy_turn(s, entity, out) ==
    IF s.monsters[entity].ai
    THEN [s |-> ai_perform(s, entity, out).s, raised |-> FALSE]
    ELSE [s |-> s, raised |-> FALSE]

RECURSIVE enemy_turns_loop(_, _, _)
enemy_turns_loop(s, order, outs) ==
    IF order = <<>> THEN [s |-> s, raised |-> FALSE]
    ELSE LET r == enemy_turn(s, Head(order), outs[Head(order)])
         IN IF r.raised THEN r ELSE enemy_turns_loop(r.s, Tail(order), outs)

\* Every order in which iterating a set can yield its elements.
RECURSIVE Orders(_)
Orders(S) ==
    IF S = {} THEN {<<>>}
    ELSE UNION {{<<e>> \o o : o \in Orders(S \ {e})} : e \in S}

Restrict(seq, S) == SelectSeq(seq, LAMBDA e : e \in S)

\* for entity in set(self.game_map.actors) - {self.player}: ...
\* `prio` fixes the order in which the set is iterated.
handle_enemy_turns(s, prio, outs) ==
    LET snapshot == actors(s) \ {"player"}
    IN enemy_turns_loop([s EXCEPT !.last.snapshot = snapshot], Restrict(prio, snapshot), outs)

-----------------------------------------------------------------------------
(* actions.py: what perform() of the player's Action does.  `pc` holds the  *)
(* outcomes the action layer decides (dice, mana): fail and kill.           *)

PerformChoice == [fail : BOOLEAN, kill : BOOLEAN]
MayFail == {"ToggleCombatModeAction", "CastSelfBuffAction", "CastSelfHealAction",
            "SummonMonsterAction", "ItemAction"}
Attacks == {"BumpAction", "FastMoveAction", "FullAttackRangedAction",
            "CastMagicMissileAction", "CastShockingGraspAction",
            "CastRayOfEnfeeblementAction"}
PerformChoices(a) ==
    {pc \in PerformChoice : (pc.fail => a.name \in MayFail) /\ (pc.kill => a.name \in Attacks)}

MonstersAt(s, x) == {m \in Monsters : s.monsters[m].is_alive /\ MonsterX(m) = x}

POk(s) == [s |-> s, status |-> "ok", msg |-> "-"]
PImpossible(s, msg) == [s |-> s, status |-> "impossible", msg |-> msg]
PError(s, exc) == [s |-> s, status |-> "error", msg |-> exc]

RemoveAt(seq, i) == [j \in 1 .. (Len(seq) - 1) |-> IF j < i THEN seq[j] ELSE seq[j + 1]]
IndexOfId(seq, id) == CHOOSE i \in 1 .. Len(seq) : seq[i] = id
HasId(seq, id) == \E i \in 1 .. Len(seq) : seq[i] = id
RemoveId(seq, id) == IF HasId(seq, id) THEN RemoveAt(seq, IndexOfId(seq, id)) ELSE seq

Slots == {"main_hand", "off_hand", "body", "neck", "ranged", "waist", "lring", "rring",
          "head", "cloak", "eyes", "shirt", "wrists", "feet", "hands", "misc"}
Worn(s) == {s.player.equipment[sl] : sl \in Slots} \ {NoItem}

\* An attack on the actor at x: it becomes the last target and may die.
attack(s, x, pc) ==
    LET m == CHOOSE m \in MonstersAt(s, x) : TRUE
        s1 == [s EXCEPT !.engine.last_target = m]
    IN IF pc.kill THEN die(s1, m) ELSE s1

perform(s, a, pc) ==
    CASE a.name \in {"BumpAction", "FastMoveAction"} ->
            LET dest == s.player.x + a.arg[1]
            IN IF ~in_bounds(dest, a.arg[2]) THEN PImpossible(s, "That way is blocked.")
               ELSE IF MonstersAt(s, dest) # {} THEN POk(attack(s, dest, pc))
               ELSE IF dest \notin s.game_map.walkable THEN PImpossible(s, "That way is blocked.")
               ELSE POk([s EXCEPT !.player.x = dest])
      [] a.name = "WaitAction" -> POk(s)
      [] a.name = "TakeStairsAction" ->
            IF StairsHere(s) = 0 THEN PImpossible(s, "There are no stairs here.")
            ELSE POk(generate_floor(s, StairsHere(s)))
      [] a.name = "PickupAction" ->
            LET here == {id \in DOMAIN s.items : <<id, s.player.x>> \in s.game_map.floor}
                id == CHOOSE id \in here : TRUE
            IN IF here = {} THEN PImpossible(s, "There is nothing here to pick up.")
               ELSE IF Len(s.player.inventory) >= s.player.capacity
               THEN PImpossible(s, "Your inventory is full.")
               ELSE POk([s EXCEPT !.player.inventory = Append(@, id),
                                  !.game_map.floor = @ \ {<<id, s.player.x>>}])
      [] a.name \in {"FullAttackRangedAction", "CastMagicMissileAction",
                     "CastShockingGraspAction", "CastRayOfEnfeeblementAction"} ->
            IF MonstersAt(s, a.arg) = {} \/ a.arg \notin s.game_map.visible
            THEN PImpossible(s, "Nothing to attack.")
            ELSE POk(attack(s, a.arg, pc))
      [] a.name = "DropItem" ->
            POk([s EXCEPT !.player.inventory = RemoveId(@, a.arg),
                          !.player.equipment = [sl \in Slots |-> IF @[sl] = a.arg THEN NoItem ELSE @[sl]],
                          !.game_map.floor = @ \cup {<<a.arg, s.player.x>>}])
      [] a.name = "ItemAction" ->
            IF pc.fail THEN PImpossible(s, "You cannot use that now.")
            ELSE IF s.items[a.arg].number_in_stack > 1
            THEN POk([s EXCEPT !.items[a.arg].number_in_stack = @ - 1])
            ELSE POk([s EXCEPT !.player.inventory = RemoveId(@, a.arg)])
      [] a.name = "SaveGameEventHandler" -> PError(s, "AttributeError")
      [] OTHER -> IF pc.fail THEN PImpossible(s, "You cannot do that.") ELSE POk(s)

-----------------------------------------------------------------------------
(* input_handlers.py: the handlers' event methods.  Each returns the state *)
(* it leaves and what it hands back (RNone, RHandler, RAction, RRaise).    *)

IsShift(mod) == "shift" \in mod

MOVE_KEYS == (K_UP :> <<0, -1>>) @@ (K_DOWN :> <<0, 1>>) @@
             (K_LEFT :> <<-1, 0>>) @@ (K_RIGHT :> <<1, 0>>)
WAIT_KEYS == {K_PERIOD}
CONFIRM_KEYS == {K_RETURN}
ModifierKeys == {K_LSHIFT}

Min(a, b) == IF a < b THEN a ELSE b
Max(a, b) == IF a > b THEN a ELSE b

ActorAlive(s, who) == IF who = "player" THEN s.player.is_alive ELSE s.monsters[who].is_alive
ActorX(s, who) == IF who = "player" THEN s.player.x ELSE MonsterX(who)

\* on_exit returning None: the handler stays.
on_exit_stays(s) == RNone(s)

\* AskUserEventHandler.on_exit
on_exit(s) == RHandler(s, MainGameEventHandler)

\* AskUserEventHandler.ev_keydown: any key but a modifier key exits.
AskUser_ev_keydown(s, key, mod) ==
    IF key \in ModifierKeys THEN RNone(s) ELSE on_exit(s)

\* AskUserEventHandler.ev_mousebuttondown
AskUser_ev_mousebuttondown(s, tile, button) == on_exit(s)

\* SelectIndexHandler.__init__
SelectIndexHandler(s, name, cb) ==
    LET lt == s.engine.last_target
        s1 == IF ActorAlive(s, lt) /\ ActorX(s, lt) \in s.game_map.visible
              THEN [s EXCEPT !.engine.mouse_location = ActorX(s, lt)]
              ELSE [s EXCEPT !.engine.mouse_location = s.player.x,
                             !.engine.last_target = "player"]
    IN RHandler(s1, Handler(name, cb))

\* SelectMonsterHandler.__init__
SelectMonsterHandler(s, name, cb) ==
    LET lt == s.engine.last_target
        s1 == IF ActorAlive(s, lt) /\ ActorX(s, lt) \in s.game_map.visible
              THEN [s EXCEPT !.engine.mouse_location = ActorX(s, lt)]
              ELSE [s EXCEPT !.engine.mouse_location = s.player.x]
    IN RHandler(s1, Handler(name, cb))

\* A main handler that does not look whether the player is a corpse.
Main_ev_keydown_plays_dead(s, key, mod) ==
    IF key \in DOMAIN MOVE_KEYS /\ IsShift(mod) THEN RAction(s, Action("FastMoveAction", MOVE_KEYS[key]))
    ELSE IF key \in DOMAIN MOVE_KEYS THEN RAction(s, Action("BumpAction", MOVE_KEYS[key]))
    ELSE IF key = K_PERIOD /\ IsShift(mod) THEN RAction(s, Action("TakeStairsAction", 0))
    ELSE IF key \in WAIT_KEYS THEN RAction(s, Action("WaitAction", 0))
    ELSE IF key = K_q /\ IsShift(mod) THEN RHandler(s, GameOverEventHandler)
    ELSE IF key = K_v THEN RHandler(s, Handler("HistoryViewer", "-"))
    ELSE IF key = K_g THEN RAction(s, Action("PickupAction", 0))
    ELSE IF key = K_x THEN RAction(s, Action("ToggleCombatModeAction", 0))
    ELSE IF key = K_i THEN RHandler(s, Handler("InventoryActivateHandler", "-"))
    ELSE IF key = K_d THEN RHandler(s, Handler("InventoryDropHandler", "-"))
    ELSE IF key = K_e THEN RHandler(s, Handler("EquipmentHandler", "-"))
    ELSE IF key = K_SLASH /\ IsShift(mod) THEN RHandler(s, Handler("HelpMenuEventHandler", "-"))
    ELSE IF key = K_SLASH THEN SelectIndexHandler(s, "LookHandler", "-")
    ELSE IF key = K_c THEN RHandler(s, Handler("CharacterScreenEventHandler", "-"))
    ELSE IF key = K_a THEN RHandler(s, Handler("LevelUpMenuEventHandler", "-"))
    ELSE IF key = K_f THEN RHandler(s, Handler("FeatSelectionEventHandler", "-"))
    ELSE IF key = K_r THEN RHandler(s, Handler("RenameItemEventHandler", "-"))
    ELSE IF key = K_s /\ IsShift(mod) THEN RHandler(s, Handler("CastSpellHandler", "-"))
    ELSE IF key = K_s THEN RAction(s, Action("SaveGameEventHandler", 0))  \* the class itself
    ELSE IF key = K_t THEN SelectMonsterHandler(s, "SingleRangedAttackHandler", "FullAttackRangedAction")
    ELSE IF key = K_b /\ IsShift(mod) THEN RHandler(s, Handler("BuffListHandler", "-"))
    ELSE IF key = K_b THEN
        IF ShopHere(s) THEN RHandler(s, Handler("ShopBuyEventHandler", "-"))
        ELSE RNone(add_message(s, "No shop is here to buy from."))
    ELSE IF key = K_n THEN
        IF ShopHere(s) THEN RHandler(s, Handler("ShopSellEventHandler", "-"))
        ELSE RNone(add_message(s, "No shop is here to sell to."))
    ELSE IF key = K_u /\ IsShift(mod) THEN
        IF EnchantHere(s) THEN RHandler(s, Handler("EnchantEventHandler", "-"))
        ELSE RNone(add_message(s, "You cannot enchant items here."))
    ELSE RNone(s)

\* MainGameEventHandler.ev_keydown
Main_ev_keydown(s, key, mod) ==
    IF ~s.player.is_alive THEN RHandler(s, GameOverEventHandler)     \* player.char == "%"
    ELSE IF key \in DOMAIN MOVE_KEYS /\ IsShift(mod) THEN RAction(s, Action("FastMoveAction", MOVE_KEYS[key]))
    ELSE IF key \in DOMAIN MOVE_KEYS THEN RAction(s, Action("BumpAction", MOVE_KEYS[key]))
    ELSE IF key = K_PERIOD /\ IsShift(mod) THEN RAction(s, Action("TakeStairsAction", 0))
    ELSE IF key \in WAIT_KEYS THEN RAction(s, Action("WaitAction", 0))
    ELSE IF key = K_q /\ IsShift(mod) THEN RHandler(s, GameOverEventHandler)
    ELSE IF key = K_v THEN RHandler(s, Handler("HistoryViewer", "-"))
    ELSE IF key = K_g THEN RAction(s, Action("PickupAction", 0))
    ELSE IF key = K_x THEN RAction(s, Action("ToggleCombatModeAction", 0))
    ELSE IF key = K_i THEN RHandler(s, Handler("InventoryActivateHandler", "-"))
    ELSE IF key = K_d THEN RHandler(s, Handler("InventoryDropHandler", "-"))
    ELSE IF key = K_e THEN RHandler(s, Handler("EquipmentHandler", "-"))
    ELSE IF key = K_SLASH /\ IsShift(mod) THEN RHandler(s, Handler("HelpMenuEventHandler", "-"))
    ELSE IF key = K_SLASH THEN SelectIndexHandler(s, "LookHandler", "-")
    ELSE IF key = K_c THEN RHandler(s, Handler("CharacterScreenEventHandler", "-"))
    ELSE IF key = K_a THEN RHandler(s, Handler("LevelUpMenuEventHandler", "-"))
    ELSE IF key = K_f THEN RHandler(s, Handler("FeatSelectionEventHandler", "-"))
    ELSE IF key = K_r THEN RHandler(s, Handler("RenameItemEventHandler", "-"))
    ELSE IF key = K_s /\ IsShift(mod) THEN RHandler(s, Handler("CastSpellHandler", "-"))
    ELSE IF key = K_s THEN RAction(s, Action("SaveGameEventHandler", 0))  \* the class itself
    ELSE IF key = K_t THEN SelectMonsterHandler(s, "SingleRangedAttackHandler", "FullAttackRangedAction")
    ELSE IF key = K_b /\ IsShift(mod) THEN RHandler(s, Handler("BuffListHandler", "-"))
    ELSE IF key = K_b THEN
        IF ShopHere(s) THEN RHandler(s, Handler("ShopBuyEventHandler", "-"))
        ELSE RNone(add_message(s, "No shop is here to buy from."))
    ELSE IF key = K_n THEN
        IF ShopHere(s) THEN RHandler(s, Handler("ShopSellEventHandler", "-"))
        ELSE RNone(add_message(s, "No shop is here to sell to."))
    ELSE IF key = K_u /\ IsShift(mod) THEN
        IF EnchantHere(s) THEN RHandler(s, Handler("EnchantEventHandler", "-"))
        ELSE RNone(add_message(s, "You cannot enchant items here."))
    ELSE RNone(s)

\* GameOverEventHandler.ev_keydown
GameOver_ev_keydown(s, key, mod) ==
    IF key = K_ESCAPE THEN RRaise(s, "SystemExit")
    ELSE RHandler(s, MainGameEventHandler)

\* SelectIndexHandler.on_index_selected of the subclasses
on_index_selected(s, x) ==
    IF s.handler.name = "LookHandler" THEN RHandler(s, MainGameEventHandler)
    ELSE RAction(s, Action(s.handler.cb, x))       \* self.callback((x, y))

\* SelectIndexHandler.ev_keydown
SelectIndex_ev_keydown(s, key, mod) ==
    IF key \in DOMAIN MOVE_KEYS THEN
        LET modifier == (IF "shift" \in mod THEN 5 ELSE 1) * (IF "ctrl" \in mod THEN 10 ELSE 1)
                            * (IF "alt" \in mod THEN 20 ELSE 1)
            x == s.engine.mouse_location + MOVE_KEYS[key][1] * modifier
        IN RNone([s EXCEPT !.engine.mouse_location = Max(0, Min(x, MapWidth - 1))])
    ELSE IF key \in CONFIRM_KEYS THEN on_index_selected(s, s.engine.mouse_location)
    ELSE AskUser_ev_keydown(s, key, mod)

\* SelectIndexHandler.ev_mousebuttondown and SelectMonsterHandler.ev_mousebuttondown
Select_ev_mousebuttondown(s, tile, button) ==
    IF in_bounds(tile, 0) /\ button = 1 THEN on_index_selected(s, tile)
    ELSE AskUser_ev_mousebuttondown(s, tile, button)

\* SelectMonsterHandler.ev_keydown: cone targeting by direction key.
DirOf(key) == CASE key = K_UP -> "Up" [] key = K_DOWN -> "Down"
                [] key = K_LEFT -> "Left" [] key = K_RIGHT -> "Right"

\* The cone of a direction: a monster at m seen from the player at p.
InCone(p, m, dir) ==
    CASE dir = "Up" -> m[2] < p[2] /\ Abs(m[2] - p[2]) >= Abs(m[1] - p[1])
      [] dir = "Down" -> m[2] > p[2] /\ Abs(m[2] - p[2]) >= Abs(m[1] - p[1])
      [] dir = "Left" -> m[1] < p[1] /\ Abs(m[2] - p[2]) <= Abs(m[1] - p[1])
      [] dir = "Right" -> m[1] > p[1] /\ Abs(m[2] - p[2]) <= Abs(m[1] - p[1])

\* math.sqrt(dx**2 + dy**2) orders as dx**2 + dy**2 does.
DistSq(p, q) == (p[1] - q[1]) * (p[1] - q[1]) + (p[2] - q[2]) * (p[2] - q[2])

\* sorted(dist_list, key = distance): a stable sort, nearest first.
RECURSIVE SortByDistance(_, _, _)
SortByDistance(seq, at, p) ==
    IF seq = <<>> THEN <<>>
    ELSE LET i == CHOOSE i \in 1 .. Len(seq) :
                     /\ \A j \in 1 .. Len(seq) : DistSq(at[seq[i]], p) <= DistSq(at[seq[j]], p)
                     /\ \A j \in 1 .. (i - 1) : DistSq(at[seq[j]], p) > DistSq(at[seq[i]], p)
         IN <<seq[i]>> \o SortByDistance(RemoveAt(seq, i), at, p)

\* The direction-key branch, on a scene `sc`: the player's position, the
\* living actors in the order the map yields them (order) with their
\* positions (at), the visible cells, and the engine's three fields.
cone_press_forgets_count(sc, key) ==
    LET dir == DirOf(key)
        quick_list == SelectSeq(sc.order, LAMBDA m : InCone(sc.player, sc.at[m], dir)
                                                        /\ sc.at[m] \in sc.visible)
        dist_list == SortByDistance(quick_list, sc.at, sc.player)
        xy == IF dist_list # <<>> THEN sc.at[dist_list[1]] ELSE sc.player
    IN [sc EXCEPT !.num_pressed = 0, !.last_keypress = dir,
                  !.mouse_location = <<Max(0, Min(xy[1], sc.width - 1)),
                                       Max(0, Min(xy[2], sc.height - 1))>>]

cone_press(sc, key) ==
    LET dir == DirOf(key)
        pressed == IF sc.last_keypress = dir THEN sc.num_pressed + 1 ELSE 0
        quick_list == SelectSeq(sc.order, LAMBDA m : InCone(sc.player, sc.at[m], dir)
                                                        /\ sc.at[m] \in sc.visible)
        dist_list == SortByDistance(quick_list, sc.at, sc.player)
        wrap == dist_list # <<>> /\ pressed > Len(dist_list) - 1
        num_pressed == IF wrap THEN 0 ELSE pressed
        xy == IF dist_list # <<>> THEN sc.at[dist_list[num_pressed + 1]] ELSE sc.player
    IN [sc EXCEPT !.num_pressed = num_pressed,
                  !.last_keypress = IF wrap THEN "None" ELSE dir,
                  !.mouse_location = <<Max(0, Min(xy[1], sc.width - 1)),
                                       Max(0, Min(xy[2], sc.height - 1))>>]

\* The scene of the one-row map: every actor has y = 0.
SceneOf(s) ==
    [player |-> <<s.player.x, 0>>,
     at |-> [m \in actors(s) |-> <<ActorX(s, m), 0>>],
     order |-> CHOOSE o \in Orders(actors(s)) : TRUE,
     visible |-> {<<c, 0>> : c \in s.game_map.visible},
     width |-> MapWidth, height |-> 1,
     last_keypress |-> s.engine.last_keypress, num_pressed |-> s.engine.num_pressed,
     mouse_location |-> <<s.engine.mouse_location, 0>>]

SelectMonster_ev_keydown(s, key, mod) ==
    IF key \in {K_UP, K_DOWN, K_LEFT, K_RIGHT} THEN
        LET sc == cone_press(SceneOf(s), key)
        IN RNone([s EXCEPT !.engine.num_pressed = sc.num_pressed,
                           !.engine.last_keypress = sc.last_keypress,
                           !.engine.mouse_location = sc.mouse_location[1]])
    ELSE IF key \in CONFIRM_KEYS THEN on_index_selected(s, s.engine.mouse_location)
    ELSE AskUser_ev_keydown(s, key, mod)

\* HistoryViewer.ev_keydown (the cursor is only drawn; it is not kept here)
History_ev_keydown(s, key, mod) ==
    IF key \in {K_UP, K_DOWN} THEN RNone(s)
    ELSE RHandler(s, MainGameEventHandler)

\* HelpMenuEventHandler.ev_keydown
Help_ev_keydown(s, key, mod) == RHandler(s, MainGameEventHandler)

\* The town portal leaving visibility as the new map was generated.
TownPortal_ev_keydown_without_fov(s, key, mod) ==
    IF key = K_ESCAPE THEN RHandler(s, MainGameEventHandler)
    ELSE IF key = K_y THEN
        LET s1 == IF s.game_map.dungeon_level > 0
                  THEN generate_town([s EXCEPT !.engine.last_level = s.game_map.dungeon_level], 0)
                  ELSE [generate_dungeon(s, s.engine.last_level, 1) EXCEPT !.engine.last_level = 0]
        IN RHandler(s1, MainGameEventHandler)
    ELSE RNone(s)

\* A town portal that does not remember the level it was used on.
TownPortal_ev_keydown_forgets_level(s, key, mod) ==
    IF key = K_ESCAPE THEN RHandler(s, MainGameEventHandler)
    ELSE IF key = K_y THEN
        LET s1 == IF s.game_map.dungeon_level > 0
                  THEN generate_town(s, 0)
                  ELSE [generate_dungeon(s, s.engine.last_level, 1) EXCEPT !.engine.last_level = 0]
        IN RHandler(update_fov(s1), MainGameEventHandler)
    ELSE RNone(s)

\* TownPortalEventHandler.ev_keydown
TownPortal_ev_keydown(s, key, mod) ==
    IF key = K_ESCAPE THEN RHandler(s, MainGameEventHandler)
    ELSE IF key = K_y THEN
        LET s1 == IF s.game_map.dungeon_level > 0
                  THEN generate_town([s EXCEPT !.engine.last_level = s.game_map.dungeon_level], 0)
                  ELSE [generate_dungeon(s, s.engine.last_level, 1) EXCEPT !.engine.last_level = 0]
        IN RHandler(update_fov(s1), MainGameEventHandler)
    ELSE RNone(s)

\* UseBagHandler.ev_keydown
UseBag_ev_keydown(s, key, mod) ==
    IF key = K_t THEN RHandler(s, Handler("TakeFromBagHandler", "-"))
    ELSE IF key = K_p THEN RHandler(s, Handler("PlaceInBagHandler", "-"))
    ELSE IF key = K_q \/ key = K_ESCAPE THEN RHandler(s, MainGameEventHandler)
    ELSE RNone(s)

\* CastSpellHandler.ev_keydown
SpellOrder == <<"Magic Missile", "Shield", "Shocking Grasp", "Summon Monster 1">>

CastSpell_ev_keydown(s, key, mod) ==
    LET current_spells_list == Restrict(SpellOrder, s.player.spells)
        letter_found == key - 97
        spell == current_spells_list[letter_found + 1]
    IN IF letter_found \in 0 .. (Len(current_spells_list) - 1) THEN
          CASE spell = "Shield" -> RAction(s, Action("CastSelfBuffAction", 0))
            [] spell = "Magic Missile" ->
                 SelectMonsterHandler(s, "SingleRangedAttackHandler", "CastMagicMissileAction")
            [] spell = "Shocking Grasp" ->
                 SelectIndexHandler(s, "SingleMeleeAttackHandler", "CastShockingGraspAction")
            [] spell = "Summon Monster 1" ->
                 SelectIndexHandler(s, "SummonMonsterHandler", "SummonMonsterAction")
       ELSE IF key = K_ESCAPE THEN RHandler(s, MainGameEventHandler)
       ELSE RNone(s)

\* FeatSelectionEventHandler.ev_keydown.  feat_stuff.get_all_feats gives the
\* feats taken once and the repeatable ones; every prerequisite is met.
taken_once_feats == {"Dodge", "Power Attack"}
taken_multiple_feats == {"Toughness"}
FeatOrder == <<"Dodge", "Power Attack", "Toughness">>
Stats == <<"strength", "dexterity", "constitution", "intelligence", "wisdom", "charisma">>

FeatSelection_ev_keydown(s, key, mod) ==
    LET current_feats == {f \in DOMAIN s.player.combat_feats : s.player.combat_feats[f] > 0}
        main_feats_list == Restrict(FeatOrder, (taken_once_feats \ current_feats) \cup taken_multiple_feats)
        letter_found == key - 97
        stat_choice == letter_found - Len(main_feats_list)
    IN IF s.player.feats_to_take > 0 /\ letter_found \in 0 .. (Len(main_feats_list) - 1)
       THEN RHandler([s EXCEPT !.player.combat_feats[main_feats_list[letter_found + 1]] = @ + 1,
                               !.player.feats_to_take = @ - 1],
                     MainGameEventHandler)
       ELSE LET s1 == IF s.player.stats_to_take > 0 /\ stat_choice >= 0 /\ stat_choice < 6
                      THEN [s EXCEPT !.player.stats_to_take = @ - 1,
                                     !.player.stats[Stats[stat_choice + 1]] = @ + 1]
                      ELSE s
            IN IF key = K_q \/ key = K_ESCAPE THEN RHandler(s1, MainGameEventHandler)
               ELSE RNone(s1)

\* BuffListHandler.ev_keydown and CharacterScreenEventHandler.ev_keydown
Screen_ev_keydown(s, key, mod) ==
    IF key = K_ESCAPE \/ key = K_q THEN RHandler(s, MainGameEventHandler)
    ELSE RNone(s)

\* Level.experience_to_next_level
experience_to_next_level(s) == 200 + s.player.current_level * 150

\* A level-up that starts the new level without experience.
LevelUp_ev_keydown_resets_xp(s, key, mod) ==
    IF key = K_ESCAPE \/ key = K_q THEN
        IF s.player.current_xp >= experience_to_next_level(s) THEN
            LET level == s.player.current_level + 1
                feats == (IF s.player.hit_dice = "Fighter" THEN 1
                          ELSE IF level % 2 = 1 THEN 1 ELSE 0)
                         + (IF s.player.hit_dice = "Wizard" /\ level % 5 = 0 THEN 1 ELSE 0)
            IN RHandler([s EXCEPT !.player.current_xp = 0,
                                  !.player.current_level = level,
                                  !.player.stats_to_take = IF level % 4 = 0 THEN @ + 1 ELSE @,
                                  !.player.feats_to_take = @ + feats,
                                  !.player.hp = s.player.max_hp,
                                  !.player.mana = s.player.max_mana],
                        MainGameEventHandler)
        ELSE RHandler(s, MainGameEventHandler)
    ELSE RNone(s)

\* A level-up that grants every class a feat point at every level.
LevelUp_ev_keydown_feat_every_level(s, key, mod) ==
    IF key = K_ESCAPE \/ key = K_q THEN
        IF s.player.current_xp >= experience_to_next_level(s) THEN
            LET level == s.player.current_level + 1
                feats == 1 + (IF s.player.hit_dice = "Wizard" /\ level % 5 = 0 THEN 1 ELSE 0)
            IN RHandler([s EXCEPT !.player.current_xp = @ - experience_to_next_level(s),
                                  !.player.current_level = level,
                                  !.player.stats_to_take = IF level % 4 = 0 THEN @ + 1 ELSE @,
                                  !.player.feats_to_take = @ + feats,
                                  !.player.hp = s.player.max_hp,
                                  !.player.mana = s.player.max_mana],
                        MainGameEventHandler)
        ELSE RHandler(s, MainGameEventHandler)
    ELSE RNone(s)

\* LevelUpMenuEventHandler.ev_keydown
LevelUp_ev_keydown(s, key, mod) ==
    IF key = K_ESCAPE \/ key = K_q THEN
        IF s.player.current_xp >= experience_to_next_level(s) THEN
            LET level == s.player.current_level + 1
                feats == (IF s.player.hit_dice = "Fighter" THEN 1
                          ELSE IF level % 2 = 1 THEN 1 ELSE 0)
                         + (IF s.player.hit_dice = "Wizard" /\ level % 5 = 0 THEN 1 ELSE 0)
            IN RHandler([s EXCEPT !.player.current_xp = @ - experience_to_next_level(s),
                                  !.player.current_level = level,
                                  !.player.stats_to_take = IF level % 4 = 0 THEN @ + 1 ELSE @,
                                  !.player.feats_to_take = @ + feats,
                                  !.player.hp = s.player.max_hp,
                                  !.player.mana = s.player.max_mana],
                        MainGameEventHandler)
        ELSE RHandler(s, MainGameEventHandler)
    ELSE RNone(s)

-----------------------------------------------------------------------------
(* Items.  An Item object is a cell of `items`; lists and slots hold its id. *)
(* A name is the sequence of its characters' code points.                    *)

consumable(it) == it.kind \in {"potion", "portal"}
equippable(it) == it.kind = "weapon"
IsBag(it) == it.kind = "bag"
can_stack(it) == it.kind = "potion"

\* The shop's for_sale list (templates; the handlers never change it).
ForSale == <<"shop_potion", "shop_sword">>
CloneIds == {"copy1", "copy2"}

\* Python's list[i]: a negative index counts from the end.
PyInRange(seq, i) == -Len(seq) <= i /\ i < Len(seq)
PyIndex(seq, i) == IF i >= 0 THEN seq[i + 1] ELSE seq[Len(seq) + i + 1]

\* copy.deepcopy(item): a new object; ids of the objects still referenced.
Referenced(s) ==
    {s.player.inventory[i] : i \in 1 .. Len(s.player.inventory)}
        \cup {s.player.bag_inventory[i] : i \in 1 .. Len(s.player.bag_inventory)}
        \cup {f[1] : f \in s.game_map.floor} \cup {s.engine.enchanting_item}
FreeIds(s) == CloneIds \ Referenced(s)

\* Equippable.activate: equip the item in its slot, or take it off.
activate(s, id) ==
    IF s.player.equipment["main_hand"] = id
    THEN add_message([s EXCEPT !.player.equipment["main_hand"] = NoItem], "You remove the item.")
    ELSE add_message([s EXCEPT !.player.equipment["main_hand"] = id], "You equip the item.")

\* ShopBuyEventHandler.buy_item
RECURSIVE buy_stack(_, _, _)
buy_stack(s, item, i) ==
    IF i > Len(s.player.inventory) THEN s
    ELSE LET id == s.player.inventory[i]
         IN IF s.items[id].name = s.items[item].name /\ can_stack(s.items[item])
            THEN buy_stack(add_message([s EXCEPT !.items[id].number_in_stack = @ + 1],
                                       "You buy another item."), item, i + 1)
            ELSE buy_stack(s, item, i + 1)

\* buy_item appending the shop's item itself instead of a deep copy.
buy_item_hands_over_template(s, item) ==
    IF Len(s.player.inventory) >= s.player.capacity THEN RRaise(s, "Impossible")
    ELSE IF s.player.gold >= s.items[item].gold_value THEN
        LET s1 == buy_stack(s, item, 1)
            stacking == s1.items # s.items
            s2 == IF stacking THEN s1
                  ELSE add_message([s EXCEPT !.player.inventory = Append(@, item)],
                                   "You buy the item.")
        IN RNone([s2 EXCEPT !.player.gold = @ - s.items[item].gold_value])
    ELSE RNone(add_message(s, "You don't have the gold for that."))

\* buy_item without the test of the player's gold.
buy_item_on_credit(s, item) ==
    IF Len(s.player.inventory) >= s.player.capacity THEN RRaise(s, "Impossible")
    ELSE LET s1 == buy_stack(s, item, 1)
             stacking == s1.items # s.items
             clone_item == IF FreeIds(s) = {} THEN NoItem ELSE CHOOSE id \in FreeIds(s) : TRUE
             s2 == IF stacking THEN s1
                   ELSE add_message([s EXCEPT !.items[clone_item] = s.items[item],
                                              !.player.inventory = Append(@, clone_item)],
                                    "You buy the item.")
         IN RNone([s2 EXCEPT !.player.gold = @ - s.items[item].gold_value])

buy_item(s, item) ==
    IF Len(s.player.inventory) >= s.player.capacity THEN RRaise(s, "Impossible")
    ELSE IF s.player.gold >= s.items[item].gold_value THEN
        LET s1 == buy_stack(s, item, 1)
            stacking == s1.items # s.items
            clone_item == IF FreeIds(s) = {} THEN NoItem ELSE CHOOSE id \in FreeIds(s) : TRUE
            s2 == IF stacking THEN s1
                  ELSE add_message([s EXCEPT !.items[clone_item] = s.items[item],
                                             !.player.inventory = Append(@, clone_item)],
                                   "You buy the item.")
        IN RNone([s2 EXCEPT !.player.gold = @ - s.items[item].gold_value])
    ELSE RNone(add_message(s, "You don't have the gold for that."))

\* ShopBuyEventHandler.ev_keydown
ShopBuy_ev_keydown(s, key, mod) ==
    LET index == key - K_a
    IN IF 0 <= index /\ index <= 26 THEN
           IF ~ShopHere(s) THEN RRaise(s, "UnboundLocalError")
           ELSE IF index >= Len(ForSale) THEN RNone(add_message(s, "Invalid entry."))
           ELSE buy_item(s, ForSale[index + 1])
       ELSE AskUser_ev_keydown(s, key, mod)

\* A take-from-bag that does not look at the inventory's capacity.
TakeFromBag_ev_keydown_overfull(s, key, mod) ==
    LET index == key - K_a
        selected_item == s.player.bag_inventory[index + 1]
    IN IF 0 <= index /\ index <= 26 THEN
           IF index >= Len(s.player.bag_inventory) THEN RNone(add_message(s, "Invalid entry."))
           ELSE RNone(add_message([s EXCEPT !.player.inventory = Append(@, selected_item),
                                            !.player.bag_inventory = RemoveAt(@, index + 1)],
                                  "You take the item from the bag."))
       ELSE AskUser_ev_keydown(s, key, mod)

\* TakeFromBagHandler.ev_keydown
TakeFromBag_ev_keydown(s, key, mod) ==
    LET index == key - K_a
        selected_item == s.player.bag_inventory[index + 1]
    IN IF 0 <= index /\ index <= 26 THEN
           IF index >= Len(s.player.bag_inventory) THEN RNone(add_message(s, "Invalid entry."))
           ELSE IF Len(s.player.inventory) >= s.player.capacity
           THEN RNone(add_message(s, "You can't remove items from bags, inventory is full."))
           ELSE RNone(add_message([s EXCEPT !.player.inventory = Append(@, selected_item),
                                            !.player.bag_inventory = RemoveAt(@, index + 1)],
                                  "You take the item from the bag."))
       ELSE AskUser_ev_keydown(s, key, mod)

\* on_item_selected of the InventoryEventHandler subclasses
on_item_selected(s, item) ==
    CASE s.handler.name = "InventoryActivateHandler" ->
            IF consumable(s.items[item]) THEN
                IF s.items[item].kind = "portal"
                THEN RHandler(s, Handler("TownPortalEventHandler", "-"))
                ELSE RAction(s, Action("ItemAction", item))
            ELSE IF equippable(s.items[item]) THEN RNone(activate(s, item))
            ELSE IF IsBag(s.items[item])
            THEN RHandler([s EXCEPT !.engine.enchanting_item = item], Handler("UseBagHandler", "-"))
            ELSE RNone(s)
      [] s.handler.name = "InventoryDropHandler" -> RAction(s, Action("DropItem", item))
      [] OTHER -> RNone(s)

\* InventoryEventHandler.ev_keydown
Inventory_ev_keydown(s, key, mod) ==
    LET index == key - K_a
    IN IF s.engine.enchant_now = FALSE THEN
           IF 0 <= index /\ index <= 26 THEN
               IF index >= Len(s.player.inventory) THEN RNone(add_message(s, "Invalid entry."))
               ELSE on_item_selected(s, s.player.inventory[index + 1])
           ELSE AskUser_ev_keydown(s, key, mod)
       ELSE RNone(s)

\* A place-in-bag that does not look at the equipment slots.
PlaceInBag_ev_keydown_takes_worn(s, key, mod) ==
    LET index == key - K_a
        selected_item == s.player.inventory[index + 1]
        bag == s.engine.enchanting_item
        s1 == IF Len(s.player.bag_inventory) >= s.player.bag_capacity
              THEN add_message(s, "Your bag is full.")
              ELSE IF can_stack(s.items[selected_item])
              THEN add_message(s, "Stacking items not implemented for bags.")
              ELSE IF selected_item = bag
              THEN add_message(s, "You can't place a bag in itself.")
              ELSE [add_message(s, "You place the item in the bag.")
                        EXCEPT !.player.bag_inventory = Append(@, selected_item),
                               !.player.inventory = RemoveAt(@, index + 1)]
    IN IF 0 <= index /\ index <= 26 THEN
           IF index >= Len(s.player.inventory) THEN RNone(add_message(s, "Invalid entry."))
           ELSE Inventory_ev_keydown(s1, key, mod)
       ELSE Inventory_ev_keydown(s, key, mod)

\* PlaceInBagHandler.ev_keydown
PlaceInBag_ev_keydown(s, key, mod) ==
    LET index == key - K_a
        selected_item == s.player.inventory[index + 1]
        bag == s.engine.enchanting_item
        s1 == IF Len(s.player.bag_inventory) >= s.player.bag_capacity
              THEN add_message(s, "Your bag is full.")
              ELSE IF selected_item \in Worn(s)
              THEN add_message(s, "You can't place something you are wearing in a bag.")
              ELSE IF can_stack(s.items[selected_item])
              THEN add_message(s, "Stacking items not implemented for bags.")
              ELSE IF selected_item = bag
              THEN add_message(s, "You can't place a bag in itself.")
              ELSE [add_message(s, "You place the item in the bag.")
                        EXCEPT !.player.bag_inventory = Append(@, selected_item),
                               !.player.inventory = RemoveAt(@, index + 1)]
    IN IF 0 <= index /\ index <= 26 THEN
           IF index >= Len(s.player.inventory) THEN RNone(add_message(s, "Invalid entry."))
           ELSE Inventory_ev_keydown(s1, key, mod)
       ELSE Inventory_ev_keydown(s, key, mod)

\* TextEntryEventHandler.ev_keydown (input_text is kept in the handler)
TextEntry_ev_keydown(s, key, mod) ==
    LET index == key - K_a
    IN IF key # K_ESCAPE /\ key # K_RETURN THEN
           IF IsShift(mod) THEN
               LET t1 == IF key = K_EQUALS THEN Append(s.handler.cb, 43) ELSE s.handler.cb
                   t2 == IF 0 <= index /\ index < 26 THEN Append(t1, key - 32) ELSE t1
               IN AskUser_ev_keydown([s EXCEPT !.handler.cb = t2], key, mod)
           ELSE IF key >= 1114112 THEN RRaise(s, "ValueError")     \* chr() out of range
           ELSE RNone([s EXCEPT !.handler.cb = Append(@, key)])
       ELSE RNone(add_message([s EXCEPT !.engine.enchant_now = FALSE], "Text entered."))

\* RenameItemEventHandler.ev_keydown
RenameItem_ev_keydown(s, key, mod) ==
    LET index == key - K_a
        it == s.engine.enchanting_item
        s1 == IF s.engine.enchant_now = TRUE THEN
                  IF key # K_ESCAPE /\ key # K_RETURN THEN
                      IF IsShift(mod) THEN
                          LET a1 == IF key = K_EQUALS THEN [s EXCEPT !.items[it].name = Append(@, 43)] ELSE s
                          IN IF 0 <= index /\ index < 26
                             THEN [a1 EXCEPT !.items[it].name = Append(@, key - 32)] ELSE a1
                      ELSE IF index < 1000 THEN [s EXCEPT !.items[it].name = Append(@, key)] ELSE s
                  ELSE [add_message(s, "Item renaming complete.") EXCEPT !.engine.enchant_now = FALSE]
              ELSE s
        selected_item == s1.player.inventory[index + 1]
    IN IF s1.engine.enchant_now = FALSE /\ 0 <= index /\ index <= 26 THEN
           IF index >= Len(s1.player.inventory) THEN RNone(add_message(s1, "Invalid entry."))
           ELSE Inventory_ev_keydown(
                    [add_message(s1, "Blanking item name.  Enter new name.")
                        EXCEPT !.engine.enchanting_item = selected_item,
                               !.items[selected_item].name = <<>>,
                               !.engine.enchant_now = TRUE], key, mod)
       ELSE Inventory_ev_keydown(s1, key, mod)

\* components.enchanter.enchanter_options: the header row, then one row per
\* option (stat, bonus, formula, unit price).
EnchantUnitPrice == 1
enchanter_options(it) ==
    <<[stat |-> "header", bonus |-> 0, formula |-> "-", price |-> 0],
      [stat |-> "Weapon", bonus |-> 1, formula |-> "square", price |-> EnchantUnitPrice],
      [stat |-> "Weapon", bonus |-> 2, formula |-> "square", price |-> EnchantUnitPrice],
      [stat |-> "Weapon", bonus |-> 1, formula |-> "square+2", price |-> EnchantUnitPrice]>>

\* EnchantEventHandler.enchant_item
enchant_item(s, item) ==
    IF item \in Worn(s) THEN RNone(add_message(s, "You can't enchant something you are wearing."))
    ELSE IF can_stack(s.items[item]) THEN RNone(add_message(s, "The shop has no interest in that item."))
    ELSE IF equippable(s.items[item])
    THEN RNone([add_message(s, "Enchanting item is: item") EXCEPT !.engine.enchanting_item = item,
                                                                  !.engine.enchant_now = TRUE])
    ELSE RRaise(s, "NameError")

\* The option phase charging the full cost of the option.
enchant_option_without_discount(s, key) ==
    LET index == key - K_a
        enc_item == s.engine.enchanting_item
        slot_choices == enchanter_options(s.items[enc_item])
        choice == PyIndex(slot_choices, index + 1)
        cost == IF choice.formula = "square" THEN choice.bonus * choice.bonus * choice.price
                ELSE (choice.bonus + 2) * (choice.bonus + 2) * choice.price
        discount == 0
        s1 == IF s.player.gold < cost - discount THEN add_message(s, "You don't have enough gold.")
              ELSE IF discount >= cost THEN add_message(s, "That wouldn't improve the item.")
              ELSE [add_message(s, "Your item now gives the bonus.")
                        EXCEPT !.player.gold = @ - (cost - discount),
                               !.items[enc_item].bonus = choice.bonus]
    IN IF key = K_ESCAPE
       THEN RNone(add_message([s EXCEPT !.engine.enchant_now = FALSE], "Enchant Aborted."))
       ELSE IF enc_item = NoItem \/ ~equippable(s.items[enc_item]) THEN RRaise(s, "AttributeError")
       ELSE IF ~PyInRange(slot_choices, index + 1) \/ choice.stat = "header" THEN RRaise(s, "IndexError")
       ELSE IF choice.formula \notin {"square", "square+2"}
       THEN RNone([add_message(s, "Enchant formula not recognized.") EXCEPT !.engine.enchant_now = FALSE])
       ELSE RNone([s1 EXCEPT !.engine.enchant_now = FALSE])

\* The option phase without the test of the player's gold.
enchant_option_on_credit(s, key) ==
    LET index == key - K_a
        enc_item == s.engine.enchanting_item
        slot_choices == enchanter_options(s.items[enc_item])
        choice == PyIndex(slot_choices, index + 1)
        cost == IF choice.formula = "square" THEN choice.bonus * choice.bonus * choice.price
                ELSE (choice.bonus + 2) * (choice.bonus + 2) * choice.price
        discount == IF choice.stat = "Weapon"
                    THEN s.items[enc_item].bonus * s.items[enc_item].bonus * choice.price
                    ELSE 0
        s1 == IF discount >= cost THEN add_message(s, "That wouldn't improve the item.")
              ELSE [add_message(s, "Your item now gives the bonus.")
                        EXCEPT !.player.gold = @ - (cost - discount),
                               !.items[enc_item].bonus = choice.bonus]
    IN IF key = K_ESCAPE
       THEN RNone(add_message([s EXCEPT !.engine.enchant_now = FALSE], "Enchant Aborted."))
       ELSE IF enc_item = NoItem \/ ~equippable(s.items[enc_item]) THEN RRaise(s, "AttributeError")
       ELSE IF ~PyInRange(slot_choices, index + 1) \/ choice.stat = "header" THEN RRaise(s, "IndexError")
       ELSE IF choice.formula \notin {"square", "square+2"}
       THEN RNone([add_message(s, "Enchant formula not recognized.") EXCEPT !.engine.enchant_now = FALSE])
       ELSE RNone([s1 EXCEPT !.engine.enchant_now = FALSE])

\* EnchantEventHandler.ev_keydown, the option phase (engine.enchant_now)
enchant_option(s, key) ==
    LET index == key - K_a
        enc_item == s.engine.enchanting_item
        slot_choices == enchanter_options(s.items[enc_item])
        choice == PyIndex(slot_choices, index + 1)
        cost == IF choice.formula = "square" THEN choice.bonus * choice.bonus * choice.price
                ELSE (choice.bonus + 2) * (choice.bonus + 2) * choice.price
        discount == IF choice.stat = "Weapon"
                    THEN s.items[enc_item].bonus * s.items[enc_item].bonus * choice.price
                    ELSE 0
        s1 == IF s.player.gold < cost - discount THEN add_message(s, "You don't have enough gold.")
              ELSE IF discount >= cost THEN add_message(s, "That wouldn't improve the item.")
              ELSE [add_message(s, "Your item now gives the bonus.")
                        EXCEPT !.player.gold = @ - (cost - discount),
                               !.items[enc_item].bonus = choice.bonus]
    IN IF key = K_ESCAPE
       THEN RNone(add_message([s EXCEPT !.engine.enchant_now = FALSE], "Enchant Aborted."))
       ELSE IF enc_item = NoItem \/ ~equippable(s.items[enc_item]) THEN RRaise(s, "AttributeError")
       ELSE IF ~PyInRange(slot_choices, index + 1) \/ choice.stat = "header" THEN RRaise(s, "IndexError")
       ELSE IF choice.formula \notin {"square", "square+2"}
       THEN RNone([add_message(s, "Enchant formula not recognized.") EXCEPT !.engine.enchant_now = FALSE])
       ELSE RNone([s1 EXCEPT !.engine.enchant_now = FALSE])

\* EnchantEventHandler.ev_keydown
Enchant_ev_keydown(s, key, mod) ==
    LET index == key - K_a
    IN IF s.engine.enchant_now = TRUE THEN enchant_option(s, key)
       ELSE IF 0 <= index /\ index <= 26 THEN
           IF index >= Len(s.player.inventory) THEN RNone(add_message(s, "Invalid entry."))
           ELSE enchant_item(s, s.player.inventory[index + 1])
       ELSE AskUser_ev_keydown(s, key, mod)

\* sell_item without the test of the equipment slots.
sell_item_worn(s, item) ==
    IF s.items[item].gold_value > 0 THEN
        LET s1 == add_message([s EXCEPT !.player.gold = @ + (s.items[item].gold_value \div 2)],
                              "You sell the item.")
        IN IF s.items[item].number_in_stack > 1
           THEN RNone([s1 EXCEPT !.items[item].number_in_stack = @ - 1])
           ELSE RNone([s1 EXCEPT !.player.inventory = RemoveId(@, item)])
    ELSE RNone(add_message(s, "The shop has no interest in that item."))

\* sell_item taking one off the stack whatever its count.
sell_item_empties_stack(s, item) ==
    IF item \in Worn(s) THEN RNone(add_message(s, "You can't sell something you are wearing."))
    ELSE IF s.items[item].gold_value > 0 THEN
        RNone([add_message([s EXCEPT !.player.gold = @ + (s.items[item].gold_value \div 2)],
                           "You sell the item.")
                   EXCEPT !.items[item].number_in_stack = @ - 1])
    ELSE RNone(add_message(s, "The shop has no interest in that item."))

\* ShopSellEventHandler.sell_item
sell_item(s, item) ==
    IF item \in Worn(s) THEN RNone(add_message(s, "You can't sell something you are wearing."))
    ELSE IF s.items[item].gold_value > 0 THEN
        LET s1 == add_message([s EXCEPT !.player.gold = @ + (s.items[item].gold_value \div 2)],
                              "You sell the item.")
        IN IF s.items[item].number_in_stack > 1
           THEN RNone([s1 EXCEPT !.items[item].number_in_stack = @ - 1])
           ELSE RNone([s1 EXCEPT !.player.inventory = RemoveId(@, item)])
    ELSE RNone(add_message(s, "The shop has no interest in that item."))

\* ShopSellEventHandler.ev_keydown
ShopSell_ev_keydown(s, key, mod) ==
    LET index == key - K_a
    IN IF 0 <= index /\ index <= 26 THEN
           IF index >= Len(s.player.inventory) THEN RNone(add_message(s, "Invalid entry."))
           ELSE sell_item(s, s.player.inventory[index + 1])
       ELSE AskUser_ev_keydown(s, key, mod)

\* EquipmentHandler.ev_keydown
check_list == <<"main_hand", "off_hand", "body", "neck", "ranged", "waist", "lring", "rring",
                "head", "cloak", "eyes", "shirt", "wrists", "feet", "hands", "misc">>

Equipment_ev_keydown(s, key, mod) ==
    LET index == key - K_a
        s1 == IF Len(check_list) > index /\ index >= 0
              THEN IF s.player.equipment[check_list[index + 1]] # NoItem
                   THEN activate(s, s.player.equipment[check_list[index + 1]]) ELSE s
              ELSE s
    IN IF key = K_ESCAPE THEN AskUser_ev_keydown(s1, key, mod) ELSE RNone(s1)

-----------------------------------------------------------------------------
(* EventHandler: dispatch, handle_action, handle_events; the loop of main() *)

KeyDown(key, mod) == [type |-> "KeyDown", key |-> key, mod |-> mod, tile |-> 0, button |-> 0]
MouseButtonDown(tile, button) ==
    [type |-> "MouseButtonDown", key |-> 0, mod |-> {}, tile |-> tile, button |-> button]
MouseMotion(tile) ==
    [type |-> "MouseMotion", key |-> 0, mod |-> {}, tile |-> tile, button |-> 0]

SelectIndexHandlers == {"LookHandler", "SingleMeleeAttackHandler", "AreaRangedAttackHandler",
                        "SummonMonsterHandler"}
SelectMonsterHandlers == {"SingleRangedAttackHandler", "ThrowShootEventHandler"}

ev_keydown(s, key, mod) ==
    LET n == s.handler.name
    IN CASE n = "MainGameEventHandler" -> Main_ev_keydown(s, key, mod)
         [] n = "GameOverEventHandler" -> GameOver_ev_keydown(s, key, mod)
         [] n = "HistoryViewer" -> History_ev_keydown(s, key, mod)
         [] n = "HelpMenuEventHandler" -> Help_ev_keydown(s, key, mod)
         [] n = "TownPortalEventHandler" -> TownPortal_ev_keydown(s, key, mod)
         [] n = "UseBagHandler" -> UseBag_ev_keydown(s, key, mod)
         [] n = "CastSpellHandler" -> CastSpell_ev_keydown(s, key, mod)
         [] n = "FeatSelectionEventHandler" -> FeatSelection_ev_keydown(s, key, mod)
         [] n \in {"BuffListHandler", "CharacterScreenEventHandler"} -> Screen_ev_keydown(s, key, mod)
         [] n = "LevelUpMenuEventHandler" -> LevelUp_ev_keydown(s, key, mod)
         [] n = "ShopBuyEventHandler" -> ShopBuy_ev_keydown(s, key, mod)
         [] n = "TakeFromBagHandler" -> TakeFromBag_ev_keydown(s, key, mod)
         [] n \in {"InventoryActivateHandler", "InventoryDropHandler"} -> Inventory_ev_keydown(s, key, mod)
         [] n = "PlaceInBagHandler" -> PlaceInBag_ev_keydown(s, key, mod)
         [] n = "TextEntryEventHandler" -> TextEntry_ev_keydown(s, key, mod)
         [] n = "RenameItemEventHandler" -> RenameItem_ev_keydown(s, key, mod)
         [] n = "EnchantEventHandler" -> Enchant_ev_keydown(s, key, mod)
         [] n = "ShopSellEventHandler" -> ShopSell_ev_keydown(s, key, mod)
         [] n = "EquipmentHandler" -> Equipment_ev_keydown(s, key, mod)
         [] n \in SelectIndexHandlers -> SelectIndex_ev_keydown(s, key, mod)
         [] n \in SelectMonsterHandlers -> SelectMonster_ev_keydown(s, key, mod)

ev_mousebuttondown(s, tile, button) ==
    LET n == s.handler.name
    IN CASE n \in {"MainGameEventHandler", "HistoryViewer"} -> RNone(s)
         [] n \in SelectIndexHandlers \cup SelectMonsterHandlers -> Select_ev_mousebuttondown(s, tile, button)
         [] OTHER -> AskUser_ev_mousebuttondown(s, tile, button)

\* A mouse motion that follows the mouse off the map.
ev_mousemotion_unchecked(s, tile) == RNone([s EXCEPT !.engine.mouse_location = tile])

\* EventHandler.ev_mousemotion
ev_mousemotion(s, tile) ==
    IF in_bounds(tile, 0) THEN RNone([s EXCEPT !.engine.mouse_location = tile])
    ELSE RNone(s)

dispatch(s, event) ==
    IF event.type = "KeyDown" THEN ev_keydown(s, event.key, event.mod)
    ELSE IF event.type = "MouseMotion" THEN ev_mousemotion(s, event.tile)
    ELSE ev_mousebuttondown(s, event.tile, event.button)

\* EventHandler.handle_action for an action that is not None: the state it
\* leaves, what it returns, and the exception that leaves it, if any.
\* `e` is what handle_enemy_turns left.
after_enemy_turns(e) ==
    IF e.raised THEN [s |-> e.s, ok |-> FALSE, exc |-> "Impossible"]
    ELSE [s |-> update_fov(e.s), ok |-> TRUE, exc |-> "-"]

\* perform() has returned: the step is recorded.
performed(s) == [s EXCEPT !.last.steps = Append(@, "perform")]

\* handle_action going on with the enemies' turns after an Impossible.
after_perform_failure_runs_turn(p, prio, outs) ==
    CASE p.status = "impossible" ->
            [s |-> update_fov(handle_enemy_turns(add_message(p.s, p.msg), prio, outs).s),
             ok |-> FALSE, exc |-> "-"]
      [] p.status = "error" -> [s |-> p.s, ok |-> FALSE, exc |-> p.msg]
      [] OTHER -> after_enemy_turns(handle_enemy_turns(performed(p.s), prio, outs))

\* handle_action recomputing visibility before the enemies' turns.
after_perform_fov_first(p, prio, outs) ==
    CASE p.status = "impossible" -> [s |-> add_message(p.s, p.msg), ok |-> FALSE, exc |-> "-"]
      [] p.status = "error" -> [s |-> p.s, ok |-> FALSE, exc |-> p.msg]
      [] OTHER -> [s |-> handle_enemy_turns(update_fov(performed(p.s)), prio, outs).s,
                   ok |-> TRUE, exc |-> "-"]

\* `p` is what action.perform() left.
after_perform(p, prio, outs) ==
    CASE p.status = "impossible" -> [s |-> add_message(p.s, p.msg), ok |-> FALSE, exc |-> "-"]
      [] p.status = "error" -> [s |-> p.s, ok |-> FALSE, exc |-> p.msg]
      [] OTHER -> after_enemy_turns(handle_enemy_turns(performed(p.s), prio, outs))

handle_action(s, action, pc, prio, outs) == after_perform(perform(s, action, pc), prio, outs)

\* main() letting every exception end the process.
main_except_exits(s, exc) ==
    [add_message(s, <<"Traceback", exc>>) EXCEPT !.handler = Exited, !.last.outcome = "raised",
                                                   !.last.exc = exc]

\* An exception that leaves handle_events reaches main(): SystemExit ends
\* the process, any other is logged and the handler stays.
main_except(s, exc) ==
    IF exc = "SystemExit"
    THEN [s EXCEPT !.handler = Exited, !.last.outcome = "exit"]
    ELSE [add_message(s, <<"Traceback", exc>>) EXCEPT !.last.outcome = "raised", !.last.exc = exc]

\* handle_events returning the main handler when the action failed.
after_action_failure_to_main(r, name) ==
    IF r.exc # "-" THEN main_except([r.s EXCEPT !.last.action = name], r.exc)
    ELSE IF r.ok
    THEN [r.s EXCEPT !.handler = IF ~r.s.player.is_alive THEN GameOverEventHandler
                                 ELSE MainGameEventHandler,
                     !.last.outcome = "turn", !.last.action = name]
    ELSE [r.s EXCEPT !.handler = MainGameEventHandler,
                     !.last.outcome = "impossible", !.last.action = name]

\* handle_events without the test of player.is_alive.
after_action_ignores_death(r, name) ==
    IF r.exc # "-" THEN main_except([r.s EXCEPT !.last.action = name], r.exc)
    ELSE IF r.ok
    THEN [r.s EXCEPT !.handler = MainGameEventHandler,
                     !.last.outcome = "turn", !.last.action = name]
    ELSE [r.s EXCEPT !.last.outcome = "impossible", !.last.action = name]

\* EventHandler.handle_events, as run by the loop of main().
\* `r` is what handle_action returned for the action `name`.
after_action(r, name) ==
    IF r.exc # "-" THEN main_except([r.s EXCEPT !.last.action = name], r.exc)
    ELSE IF r.ok
    THEN [r.s EXCEPT !.handler = IF ~r.s.player.is_alive THEN GameOverEventHandler
                                 ELSE MainGameEventHandler,
                     !.last.outcome = "turn", !.last.action = name]
    ELSE [r.s EXCEPT !.last.outcome = "impossible", !.last.action = name]

\* handle_events giving the enemies a turn when the handler changes.
after_dispatch_switch_costs_turn(d, pc, prio, outs) ==
    CASE d.t = "Handler" -> [after_enemy_turns(handle_enemy_turns(d.s, prio, outs)).s
                                 EXCEPT !.handler = d.h, !.last.outcome = "handler"]
      [] d.t = "Raise" -> main_except(d.s, d.exc)
      [] d.t = "None" -> [d.s EXCEPT !.last.outcome = "none"]
      [] d.t = "Action" -> after_action(handle_action(d.s, d.a, pc, prio, outs), d.a.name)

\* `d` is what self.dispatch(event) returned.
after_dispatch(d, pc, prio, outs) ==
    CASE d.t = "Handler" -> [d.s EXCEPT !.handler = d.h, !.last.outcome = "handler"]
      [] d.t = "Raise" -> main_except(d.s, d.exc)
      [] d.t = "None" -> [d.s EXCEPT !.last.outcome = "none"]
      [] d.t = "Action" -> after_action(handle_action(d.s, d.a, pc, prio, outs), d.a.name)

handle_events(s, event, pc, prio, outs) == after_dispatch(dispatch(s, event), pc, prio, outs)

-----------------------------------------------------------------------------
(* The game at start (setup_game.new_game) and the next-state relation:   *)
(* one step is one input event given to handle_events.                    *)

Item(kind, name, gold_value) ==
    [kind |-> kind, name |-> name, number_in_stack |-> 1, gold_value |-> gold_value, bonus |-> 0]

StartItems ==
    [id \in {"dagger", "potion", "scroll", "bag", "junk"} \cup {ForSale[i] : i \in 1 .. Len(ForSale)} \cup CloneIds |->
        CASE id \in {"dagger"} -> Item("weapon", <<68>>, 5)
          [] id \in {"shop_sword"} -> Item("weapon", <<83>>, 5)
          [] id \in {"potion", "shop_potion"} -> Item("potion", <<80>>, 2)
          [] id = "scroll" -> Item("portal", <<84>>, 0)
          [] id = "bag" -> Item("bag", <<66>>, 0)
          [] OTHER -> Item("junk", <<74>>, 0)]

NoLast ==
    [from |-> "-", event |-> KeyDown(0, {}), outcome |-> "-", action |-> "-", exc |-> "-",
     logged |-> <<>>, snapshot |-> {}, acted |-> <<>>, ai_failed |-> {}, fov |-> 0,
     new_map |-> FALSE, steps |-> <<>>]

NewPlayer(inventory) ==
    [x |-> 0, is_alive |-> TRUE, inventory |-> inventory, capacity |-> 3,
     equipment |-> [sl \in Slots |-> NoItem], bag_inventory |-> <<>>, bag_capacity |-> 1,
     gold |-> 0, spells |-> {"Magic Missile", "Shield"},
     combat_feats |-> [f \in taken_once_feats \cup taken_multiple_feats |-> 0],
     feats_to_take |-> 1, stats_to_take |-> 0,
     stats |-> [st \in {Stats[i] : i \in 1 .. 6} |-> 10],
     current_level |-> 1, current_xp |-> 0, hit_dice |-> "Wizard",
     hp |-> 2, max_hp |-> 2, mana |-> 2, max_mana |-> 2]

\* Engine.__init__, then the town is generated and the first FOV computed.
NewGame(inventory) ==
    [update_fov(generate_town(
        [handler |-> MainGameEventHandler,
         engine |-> [enchant_now |-> FALSE, enchanting_item |-> NoItem, last_keypress |-> "None",
                     num_pressed |-> 0, last_target |-> "player", last_level |-> 0,
                     current_turn |-> 0, mouse_location |-> 0],
         game_map |-> GameMap("town", 0, {}, {}),
         player |-> NewPlayer(inventory),
         monsters |-> DeadMonsters,
         items |-> StartItems,
         last |-> NoLast], 0)) EXCEPT !.last = NoLast]

State == [handler |-> handler, engine |-> engine, game_map |-> game_map, player |-> player,
          monsters |-> monsters, items |-> items, last |-> last]

Set(s) ==
    /\ handler' = s.handler
    /\ engine' = s.engine
    /\ game_map' = s.game_map
    /\ player' = s.player
    /\ monsters' = s.monsters
    /\ items' = s.items
    /\ last' = s.last
    /\ UNCHANGED <<session, scene>>

Start(s) ==
    /\ handler = s.handler
    /\ engine = s.engine
    /\ game_map = s.game_map
    /\ player = s.player
    /\ monsters = s.monsters
    /\ items = s.items
    /\ last = s.last

\* The state an event finds: the observation of the previous event is gone.
Begin(event) == [State EXCEPT !.last = [NoLast EXCEPT !.from = handler.name, !.event = event]]

NameChars == {97, 65, 43, 80}
\* The names an item can carry: the names of the game and the typed ones.
Names == {StartItems[o].name : o \in DOMAIN StartItems}
             \cup UNION {[1 .. n -> NameChars] : n \in 0 .. MaxNameLen}
Bounded(s) ==
    /\ \A id \in DOMAIN s.items : s.items[id].name \in Names
    /\ s.engine.num_pressed <= MaxPressed
    /\ (IF s.handler.name = "TextEntryEventHandler" THEN s.handler.cb ELSE <<>>) \in Names
    /\ \A i \in 1 .. Len(s.player.inventory) : s.player.inventory[i] # NoItem

\* What the AIs of the living actors decide in one sweep.
AIChoices(living) == {outs \in [living -> UNION {AIOutcomes(m) : m \in living}] :
                         \A m \in living : outs[m] \in AIOutcomes(m)}
DefaultPrio == <<>>
DefaultOuts == <<>>
DefaultChoice == [fail |-> FALSE, kill |-> FALSE]

Done(s) == Bounded(s) /\ Set(s)

\* The enemies that take their turn after the action left the state p.s.
Sweep(d, pc, living) ==
    \E prio \in Orders(living), outs \in AIChoices(living) : Done(after_dispatch(d, pc, prio, outs))

Performed(d, pc, status) ==
    IF status = "ok" THEN Sweep(d, pc, actors(perform(d.s, d.a, pc).s) \ {"player"})
    ELSE Done(after_dispatch(d, pc, DefaultPrio, DefaultOuts))

Dispatched(d) ==
    IF d.t = "Action"
    THEN \E pc \in PerformChoices(d.a) : Performed(d, pc, perform(d.s, d.a, pc).status)
    ELSE Done(after_dispatch(d, DefaultChoice, DefaultPrio, DefaultOuts))

Step(event) == handler.name # "SystemExit" /\ Dispatched(dispatch(Begin(event), event))

\* The events of a session.  A session is one way of playing: the
\* inventory the game starts with and the keys and clicks the player uses.
Keys(S) == {<<k, {}>> : k \in S}
\* StartMenuEventHandler.on_render: the classes a new character can have.
Classes == {"Fighter", "Wizard"}
\* A setup is what the player has gathered when the session starts.
NoSetup == [gold |-> 0, current_xp |-> 0, hp |-> 2, hit_dice |-> "Wizard",
            handler |-> MainGameEventHandler]
Arrive(s, su) == [s EXCEPT !.player.gold = su.gold, !.player.current_xp = su.current_xp,
                           !.player.hp = su.hp, !.player.mana = su.hp,
                           !.player.hit_dice = su.hit_dice, !.handler = su.handler]
Session(inventory, keys, clicks) ==
    [inventory |-> inventory, keys |-> keys, clicks |-> clicks, setups |-> {NoSetup}]
From(sess, setups) == [sess EXCEPT !.setups = setups]
Sessions ==
    [play |-> Session(<<"potion">>,
                      Keys({K_LEFT, K_RIGHT, K_i, K_a, K_ESCAPE}) \cup {<<K_PERIOD, {"shift"}>>},
                      {<<3, 1>>}),
     use |-> Session(<<"potion">>, Keys({K_i, K_d, K_a, K_z, K_ESCAPE}), {<<3, 1>>}),
     rename |-> Session(<<"dagger">>,
                        Keys({K_r, K_i, K_a, K_z, K_ESCAPE, K_RETURN})
                            \cup {<<K_a, {"shift"}>>, <<K_EQUALS, {"shift"}>>, <<K_LSHIFT, {"shift"}>>},
                        {<<3, 1>>}),
     enchant |-> Session(<<"dagger">>,
                         Keys({K_e, K_i, K_d, K_a, K_c, K_z, K_ESCAPE}) \cup {<<K_u, {"shift"}>>},
                         {<<3, 1>>}),
     text |-> From(Session(<<>>,
                           Keys({K_a, K_ESCAPE, K_RETURN})
                               \cup {<<K_a, {"shift"}>>, <<K_EQUALS, {"shift"}>>, <<K_LSHIFT, {"shift"}>>},
                           {<<3, 1>>}),
                   {[NoSetup EXCEPT !.handler = Handler("TextEntryEventHandler", <<>>)]}),
     forge |-> From(Session(<<"dagger", "junk", "potion">>,
                            Keys({K_a, K_b, K_c, K_z, K_ESCAPE}) \cup {<<K_u, {"shift"}>>},
                            {<<3, 1>>}),
                    {[NoSetup EXCEPT !.gold = gold] : gold \in {0, 1, 5, 9}}),
     bag |-> Session(<<"bag", "junk">>, Keys({K_i, K_a, K_b, K_t, K_p, K_z, K_q, K_ESCAPE}), {<<3, 1>>}),
     pack |-> Session(<<"bag", "dagger", "junk">>,
                      Keys({K_i, K_a, K_b, K_c, K_t, K_p, K_ESCAPE}), {<<3, 1>>}),
     shop |-> Session(<<"potion", "dagger", "junk">>,
                      Keys({K_b, K_n, K_i, K_a, K_c, K_z, K_ESCAPE}), {<<3, 1>>}),
     trade |-> From(Session(<<>>,
                            Keys({K_b, K_n, K_r, K_a, K_ESCAPE, K_RETURN}) \cup {<<K_u, {"shift"}>>},
                            {<<3, 1>>}),
                    {[NoSetup EXCEPT !.gold = 6]}),
     stack |-> From(Session(<<"potion", "junk">>,
                            Keys({K_b, K_r, K_a, K_ESCAPE, K_RETURN}) \cup {<<K_p, {"shift"}>>},
                            {<<3, 1>>}),
                    {[NoSetup EXCEPT !.gold = 4]}),
     wealth |-> From(Session(<<"potion", "dagger">>,
                             Keys({K_b, K_r, K_a, K_ESCAPE, K_RETURN}) \cup {<<K_p, {"shift"}>>},
                             {<<3, 1>>}),
                     {[NoSetup EXCEPT !.gold = 2]}),
     cursor |-> Session(<<>>,
                        Keys({K_SLASH, K_ESCAPE})
                            \cup {<<K_PERIOD, {"shift"}>>, <<K_LEFT, {"ctrl"}>>,
                                  <<K_RIGHT, {"alt"}>>},
                        {<<3, 1>>}),
     haul |-> From(Session(<<"bag", "junk", "dagger">>,
                           Keys({K_i, K_a, K_b, K_p, K_t, K_ESCAPE}), {<<3, 1>>}),
                   {[NoSetup EXCEPT !.gold = 2]}),
     screens |-> Session(<<>>,
                         Keys({K_v, K_SLASH, K_c, K_a, K_f, K_s, K_e, K_x, K_g, K_PERIOD, K_UP,
                               K_z, K_q, K_ESCAPE, K_RETURN})
                             \cup {<<K_SLASH, {"shift"}>>, <<K_s, {"shift"}>>, <<K_b, {"shift"}>>,
                                   <<K_q, {"shift"}>>},
                         {<<3, 1>>, <<3, 3>>}),
     cast |-> Session(<<>>, Keys({K_a, K_b, K_z, K_RETURN, K_ESCAPE}) \cup {<<K_s, {"shift"}>>},
                      {<<3, 1>>}),
     level |-> From(Session(<<>>, Keys({K_a, K_c, K_d, K_f, K_q, K_ESCAPE}), {<<3, 1>>}),
                    {[NoSetup EXCEPT !.current_xp = xp, !.hp = 1, !.hit_dice = class] :
                        xp \in {0, 349, 350, 850, 2300}, class \in Classes}),
     floors |-> Session(<<"scroll">>,
                        Keys({K_RIGHT, K_i, K_a, K_y, K_ESCAPE}) \cup {<<K_PERIOD, {"shift"}>>},
                        {<<3, 1>>}),
     portal |-> Session(<<"scroll">>, Keys({K_i, K_a, K_y, K_t, K_z, K_RETURN, K_ESCAPE, K_PERIOD}),
                        {<<3, 1>>})]

EvKeyDown == \E k \in Sessions[session].keys : Step(KeyDown(k[1], k[2]))
EvMouseButtonDown == \E c \in Sessions[session].clicks : Step(MouseButtonDown(c[1], c[2]))

Next == EvKeyDown \/ EvMouseButtonDown

\* No targeting scene: the game is played on the one-row map.
NoScene == [player |-> <<0, 0>>]

\* Playing: moving, stairs, using an item, with the enemies' turns.
Init ==
    /\ session = "play" /\ scene = NoScene
    /\ \E su \in Sessions[session].setups : Start(Arrive(NewGame(Sessions[session].inventory), su))
Spec == Init /\ [][Next]_vars

\* The menus: every handler and the keys it reads.
ShopSessions == {"shop", "trade", "stack", "forge", "wealth", "haul"}
MenuSessions == DOMAIN Sessions \ ({"play", "floors", "cursor"} \cup ShopSessions)

InitMenu ==
    /\ session \in MenuSessions \cup {"shop"} /\ scene = NoScene
    /\ \E su \in Sessions[session].setups : Start(Arrive(NewGame(Sessions[session].inventory), su))
SpecMenu == InitMenu /\ [][Next]_vars

\* The shop and the enchanter: buying, selling, renaming, enchanting.
InitShop ==
    /\ session \in ShopSessions /\ scene = NoScene
    /\ \E su \in Sessions[session].setups : Start(Arrive(NewGame(Sessions[session].inventory), su))
SpecShop == InitShop /\ [][Next]_vars

\* Changing floor: the stairs and the town portal.
InitFloors ==
    /\ session = "floors" /\ scene = NoScene
    /\ \E su \in Sessions[session].setups : Start(Arrive(NewGame(Sessions[session].inventory), su))
SpecFloors == InitFloors /\ [][Next]_vars

\* The cursor: the mouse moves over the window, which is larger than the
\* map, while the player looks around, walks and takes the stairs.
MotionTiles == {0, MapWidth}
Motions == IF session = "cursor" THEN MotionTiles ELSE {}
EvMouseMotion == \E tile \in Motions : Step(MouseMotion(tile))
NextCursor == EvKeyDown \/ EvMouseButtonDown \/ EvMouseMotion
InitCursor ==
    /\ session = "cursor" /\ scene = NoScene
    /\ \E su \in Sessions[session].setups : Start(Arrive(NewGame(Sessions[session].inventory), su))
SpecCursor == InitCursor /\ [][NextCursor]_vars

\* Targeting on a square map.  The player stands in the middle, three
\* monsters stand on some of the spots; the map yields its monsters in any
\* order (the player is in no cone); the engine may remember a direction from an earlier targeting
\* (SelectMonsterHandler.__init__ resets neither last_keypress nor
\* num_pressed).  `key`, `picked` and `start` record the run of presses of
\* one direction: the key, the cells it selected, and the count the run
\* began with.
ConeSide == 11
ConePlayer == <<5, 5>>
Spots == {<<5, 2>>, <<5, 0>>, <<8, 1>>, <<5, 8>>, <<9, 5>>, <<1, 5>>}
ConeMonsters == {"orc", "troll", "rat"}

Scenes ==
    {[player |-> ConePlayer,
      at |-> [m \in ConeMonsters \cup {"player"} |-> IF m = "player" THEN ConePlayer ELSE at[m]],
      order |-> order,
      visible |-> ((0 .. (ConeSide - 1)) \X (0 .. (ConeSide - 1))) \ hidden,
      width |-> ConeSide, height |-> ConeSide,
      last_keypress |-> remembered[1], num_pressed |-> remembered[2],
      mouse_location |-> ConePlayer,
      key |-> 0, picked |-> <<>>, start |-> 0] :
        at \in {f \in [ConeMonsters -> Spots] : \A m, o \in ConeMonsters : f[m] = f[o] => m = o},
        order \in {<<"player">> \o o : o \in Orders(ConeMonsters)},
        hidden \in {{}, {<<5, 2>>}},
        remembered \in {<<"None", 0>>, <<"Up", 0>>, <<"Up", 1>>}}

InitCone ==
    /\ session = "play" /\ scene \in Scenes
    /\ Start(NewGame(<<>>))

Press(key) ==
    /\ scene # NoScene
    /\ key # scene.key \/ Len(scene.picked) < MaxRun
    /\ scene' = [cone_press(scene, key) EXCEPT
                    !.key = key,
                    !.picked = IF key = scene.key
                               THEN Append(@, cone_press(scene, key).mouse_location)
                               ELSE <<cone_press(scene, key).mouse_location>>,
                    !.start = IF key = scene.key THEN @
                              ELSE IF scene.last_keypress = DirOf(key) THEN scene.num_pressed + 1
                              ELSE 0]
    /\ UNCHANGED <<handler, engine, game_map, player, monsters, items, session, last>>

PressUp == Press(K_UP)
PressDown == Press(K_DOWN)
PressLeft == Press(K_LEFT)
PressRight == Press(K_RIGHT)

NextCone == PressUp \/ PressDown \/ PressLeft \/ PressRight
SpecCone == InitCone /\ [][NextCone]_vars

-----------------------------------------------------------------------------
(* Properties.  `last` describes the latest event: the handler it found   *)
(* (from), what handle_events did with it (outcome), the messages it      *)
(* logged, the enemies that took a turn, and how often FOV was computed.  *)

Resolved == last.outcome = "turn"
Failed == last.outcome = "impossible"
WhoActed == {last.acted[i].who : i \in 1 .. Len(last.acted)}
FOV == compute_fov(game_map.transparent, player.x, FovRadius)

\* C1: an action whose perform() fails with Impossible leaves the turn
\* counter unchanged, gives no enemy a turn and does not recompute the
\* field of view; only the failure message is logged.
C1_FailedActionCostsNothing ==
    [][last'.outcome = "impossible" =>
          /\ engine'.current_turn = engine.current_turn
          /\ last'.acted = <<>> /\ last'.snapshot = {}
          /\ last'.fov = 0
          /\ game_map' = game_map
          /\ Len(last'.logged) = 1]_vars

\* C1 witness: an action failed on a level where enemies are alive.
C1_Witness == Failed /\ \E m \in Monsters : monsters[m].is_alive /\ monsters[m].ai

\* C2: a successfully resolved action increments engine.current_turn by
\* exactly 1, whatever the number of enemies that acted.
C2_TurnCounted ==
    [][last'.outcome = "turn" => engine'.current_turn = engine.current_turn + 1]_vars

\* C5 as stated: no tile of engine.game_map goes from explored to
\* unexplored in any step, the steps that change floor included.
C5_ExploredNeverShrinks == [][game_map.explored \subseteq game_map'.explored]_vars

\* C5 amended: while the same GameMap stays current its explored grid only
\* grows; a step that changes floor installs a new GameMap, explored exactly
\* where the first field of view on it falls.
C5_ExploredGrowsPerMap ==
    [][IF last'.new_map
       THEN game_map'.explored = compute_fov(game_map'.transparent, player'.x, FovRadius)
       ELSE game_map.explored \subseteq game_map'.explored]_vars

\* C5 witness: a turn took the stairs from a level explored further than
\* the first field of view of the new map reaches.
C5_Witness ==
    Resolved /\ last.new_map /\ last.action = "TakeStairsAction"
        /\ game_map.kind = "town" /\ game_map.explored = FOV /\ game_map.explored # Cells

C7_SweepActsOncePerLivingActor ==
    /\ \A i, j \in 1 .. Len(last.acted) : i # j => last.acted[i].who # last.acted[j].who
    /\ \A i \in 1 .. Len(last.acted) : last.acted[i].who # "player" /\ last.acted[i].is_alive
    /\ WhoActed \subseteq last.snapshot

\* C7 witness: an actor of the sweep was killed by one that acted before
\* its turn came, and did not act.
C7_Witness ==
    Resolved /\ \E m \in last.snapshot : m \notin WhoActed /\ ~monsters[m].is_alive /\ WhoActed # {}

\* C8: an Impossible of one actor's AI is swallowed: the turn is resolved,
\* every actor of the sweep that is still alive has performed, and the
\* field of view is recomputed once.
C8_AiFailureIsIsolated ==
    last.ai_failed # {} =>
        /\ Resolved
        /\ \A m \in last.snapshot : monsters[m].is_alive => m \in WhoActed
        /\ last.fov = 1

\* C8 witness: the first actor of a sweep failed and the second performed.
C8_Witness ==
    Len(last.acted) = 2 /\ last.acted[1].who \in last.ai_failed /\ last.acted[2].who \notin last.ai_failed

\* C3 as stated: when the action of a handler fails with Impossible the
\* message is logged and the main handler becomes the active one.
C3_FailureReturnsToMain ==
    Failed => Len(last.logged) = 1 /\ handler = MainGameEventHandler

\* C3 amended: when the action of a handler fails with Impossible the
\* message is logged and the handler that returned the action stays active.
C3_FailureKeepsHandler ==
    [][last'.outcome = "impossible" => Len(last'.logged) = 1 /\ handler' = handler]_vars

\* C3 witness: the action of a modal handler failed.
C3_Witness ==
    Failed /\ last.from # "MainGameEventHandler" /\ handler.name = last.from

Nested(h) == h.name \notin {"MainGameEventHandler", "GameOverEventHandler", "SystemExit"}
Escape == KeyDown(K_ESCAPE, {})
InventoryFamily == {"InventoryActivateHandler", "InventoryDropHandler", "PlaceInBagHandler"}

ListHandlers == InventoryFamily \cup {"RenameItemEventHandler", "ShopBuyEventHandler",
                                      "ShopSellEventHandler", "TakeFromBagHandler", "EnchantEventHandler"}
ListLen ==
    CASE handler.name = "ShopBuyEventHandler" -> Len(ForSale)
      [] handler.name = "TakeFromBagHandler" -> Len(player.bag_inventory)
      [] handler.name = "EnchantEventHandler" /\ engine.enchant_now ->
            Len(enchanter_options(items[engine.enchanting_item])) - 1
      [] OTHER -> Len(player.inventory)
PastTheList(event) ==
    /\ handler.name \in ListHandlers
    /\ ~(handler.name = "RenameItemEventHandler" /\ engine.enchant_now)     \* typing a name
    /\ event.type = "KeyDown" /\ event.mod = {}
    /\ event.key - K_a \in 0 .. 25 /\ event.key - K_a >= ListLen

\* C10: in a list handler a key whose letter is past the end of the list
\* raises nothing to the top level, logs "Invalid entry.", changes no game
\* state and leaves the handler active.
C10_InvalidEntryIsHarmless ==
    [][PastTheList(last'.event) =>
          /\ last'.outcome = "none" /\ last'.exc = "-"
          /\ last'.logged = <<"Invalid entry.">>
          /\ handler' = handler
          /\ UNCHANGED <<engine, game_map, player, monsters, items>>]_vars

-----------------------------------------------------------------------------
(* The shop *)

\* A key that selects an entry of the shop's for_sale list, and its price.
Buying(event) ==
    /\ handler.name = "ShopBuyEventHandler" /\ ShopHere(State)
    /\ event.type = "KeyDown" /\ event.key - K_a \in 0 .. (Len(ForSale) - 1)
Bought(event) == ForSale[event.key - K_a + 1]
Templates == {ForSale[i] : i \in 1 .. Len(ForSale)}

\* C11: buying an item that costs more than the player's gold leaves the
\* player's gold, the inventory (entries and stack counts) and the shop's
\* items unchanged, logs a message and keeps the shop-buy handler active.
C11_UnaffordablePurchaseChangesNothing ==
    [][Buying(last'.event) /\ items[Bought(last'.event)].gold_value > player.gold =>
          /\ player' = player /\ items' = items /\ game_map' = game_map
          /\ Len(last'.logged) = 1
          /\ handler' = handler]_vars

\* C11 witness: a purchase was refused for lack of gold.
C11_Witness ==
    /\ last.from = "ShopBuyEventHandler" /\ handler.name = "ShopBuyEventHandler"
    /\ last.logged = <<"You don't have the gold for that.">>
    /\ player.gold < items[Bought(last.event)].gold_value

\* The inventory entries that carry the name of an item.
Owned(item) == {i \in 1 .. Len(player.inventory) : items[player.inventory[i]].name = items[item].name}
Accepted(event) ==
    /\ Buying(event)
    /\ Len(player.inventory) < player.capacity
    /\ player.gold >= items[Bought(event)].gold_value

\* C12: an accepted purchase of a stackable item the player already owns
\* adds 1 to the stack count of exactly one inventory entry, adds no entry,
\* changes no other entry and debits the price once.
C12_StackGrowsByOne ==
    [][Accepted(last'.event) /\ can_stack(items[Bought(last'.event)]) /\ Owned(Bought(last'.event)) # {} =>
          /\ player'.inventory = player.inventory
          /\ player'.gold = player.gold - items[Bought(last'.event)].gold_value
          /\ \E i \in Owned(Bought(last'.event)) :
                /\ items'[player.inventory[i]] =
                       [items[player.inventory[i]] EXCEPT !.number_in_stack = @ + 1]
                /\ \A id \in DOMAIN items \ {player.inventory[i]} : items'[id] = items[id]]_vars

\* C13: an accepted purchase of a non-stackable item appends exactly one
\* entry, a new object that copies the shop's item; the shop's items are
\* held by no inventory and no step (purchase, rename, enchant, sale)
\* changes them.
C13_PurchaseCopiesTemplate ==
    [][/\ Templates \cap Referenced(State) = {}
       /\ Templates \cap Referenced(State)' = {}
       /\ \A tp \in Templates : items'[tp] = items[tp]
       /\ Accepted(last'.event) /\ ~can_stack(items[Bought(last'.event)]) =>
             \E id \in DOMAIN items \ (Templates \cup Referenced(State)) :
                /\ player'.inventory = Append(player.inventory, id)
                /\ items' = [items EXCEPT ![id] = items[Bought(last'.event)]]
                /\ player'.gold = player.gold - items[Bought(last'.event)].gold_value]_vars

\* C13 witness: a bought sword was enchanted and renamed, and the shop's
\* sword is as it was.
C13_Witness ==
    \E i \in 1 .. Len(player.inventory) :
        LET it == items[player.inventory[i]]
        IN /\ player.inventory[i] \in CloneIds /\ it.kind = "weapon"
           /\ it.bonus = 1 /\ it.name # StartItems["shop_sword"].name
           /\ items["shop_sword"] = StartItems["shop_sword"]

\* A key that selects an entry of the inventory in the shop-sell handler.
Selling(event) ==
    /\ handler.name = "ShopSellEventHandler"
    /\ event.type = "KeyDown" /\ event.key - K_a \in 0 .. (Len(player.inventory) - 1)
Sold(event) == player.inventory[event.key - K_a + 1]

\* C14: selling an item held by an equipment slot is refused: gold,
\* inventory, stack counts and equipment slots are unchanged.
C14_WornItemIsNotSold ==
    [][Selling(last'.event) /\ Sold(last'.event) \in Worn(State) =>
          /\ player' = player /\ items' = items
          /\ last'.logged = <<"You can't sell something you are wearing.">>
          /\ handler' = handler]_vars

\* C14 witness: the sale of a worn item of value was refused.
C14_Witness ==
    /\ last.from = "ShopSellEventHandler"
    /\ last.logged = <<"You can't sell something you are wearing.">>
    /\ Sold(last.event) \in Worn(State) /\ items[Sold(last.event)].gold_value > 0

\* C15: selling an item that is not worn: a value of zero refuses the sale
\* and changes nothing; otherwise gold grows by floor(gold_value / 2) and
\* the stack count drops by 1 (count above 1) or the entry leaves the
\* inventory (count 1); no inventory entry has a stack count below 1.
C15_SaleTakesOneOffTheStack ==
    [][Selling(last'.event) /\ Sold(last'.event) \notin Worn(State) =>
          LET id == Sold(last'.event)
              i == last'.event.key - K_a + 1
          IN /\ player'.equipment = player.equipment
             /\ \A j \in 1 .. Len(player'.inventory) : items'[player'.inventory[j]].number_in_stack >= 1
             /\ IF items[id].gold_value = 0
                THEN player' = player /\ items' = items
                ELSE /\ player'.gold = player.gold + (items[id].gold_value \div 2)
                     /\ IF items[id].number_in_stack > 1
                        THEN /\ player'.inventory = player.inventory
                             /\ items' = [items EXCEPT ![id].number_in_stack = @ - 1]
                        ELSE /\ player'.inventory = RemoveAt(player.inventory, i)
                             /\ items' = items]_vars

\* C15 witness: one potion of a stack of two was sold for half its price.
C15_Witness ==
    /\ last.from = "ShopSellEventHandler" /\ last.logged = <<"You sell the item.">>
    /\ last.event.key = K_a /\ player.inventory # <<>> /\ player.inventory[1] = "potion"
    /\ items["potion"].number_in_stack = 1 /\ player.gold = 1

(* Cone targeting *)

\* The monsters a direction's cone holds, and how far the player is from
\* the i-th cell the current run of presses selected.
InTheCone(dir) ==
    {m \in ConeMonsters : InCone(scene.player, scene.at[m], dir) /\ scene.at[m] \in scene.visible}

Far(i) == DistSq(scene.picked[i], scene.player)

\* Three visible monsters to the north, one at distance 3 and two at 5.
North355 ==
    /\ scene # NoScene
    /\ Cardinality(InTheCone("Up")) = 3
    /\ Cardinality({m \in InTheCone("Up") : DistSq(scene.at[m], scene.player) = 9}) = 1
    /\ Cardinality({m \in InTheCone("Up") : DistSq(scene.at[m], scene.player) = 25}) = 2

\* The first press of a direction selects a nearest monster of its cone,
\* or the player's cell when the cone is empty.
SelectsNearest ==
    IF InTheCone(DirOf(scene.key)) = {} THEN scene.picked[1] = scene.player
    ELSE \E m \in InTheCone(DirOf(scene.key)) :
            /\ scene.picked[1] = scene.at[m]
            /\ \A o \in InTheCone(DirOf(scene.key)) :
                  DistSq(scene.at[m], scene.player) <= DistSq(scene.at[o], scene.player)

NthNearest(dir, j) ==
    CHOOSE d \in {DistSq(scene.at[m], scene.player) : m \in InTheCone(dir)} :
        /\ Cardinality({m \in InTheCone(dir) : DistSq(scene.at[m], scene.player) < d}) < j
        /\ Cardinality({m \in InTheCone(dir) : DistSq(scene.at[m], scene.player) <= d}) >= j

\* C26: with n >= 1 visible monsters in the cone of a direction, the k-th
\* consecutive press of that direction places the cursor on the
\* ((k-1) mod n)-th nearest of them; with n >= 2 no two presses in a row
\* select the same monster.
C26_PressesCycleThroughTheCone ==
    scene # NoScene /\ scene.picked # <<>> /\ InTheCone(DirOf(scene.key)) # {} =>
        /\ \A k \in 1 .. Len(scene.picked) :
              Far(k) = NthNearest(DirOf(scene.key),
                                  ((k - 1) % Cardinality(InTheCone(DirOf(scene.key)))) + 1)
        /\ Cardinality(InTheCone(DirOf(scene.key))) >= 2 =>
              \A k \in 1 .. (Len(scene.picked) - 1) : scene.picked[k] # scene.picked[k + 1]

\* Targeting has just been opened: no direction key was pressed yet.
JustOpened == scene # NoScene /\ scene.key = 0

\* C35: the first direction key pressed after a cone-targeting handler is
\* opened selects the nearest matching monster of that direction, whatever
\* direction keys an earlier targeting left in last_keypress/num_pressed.
C35_FirstPressSelectsNearest ==
    [][JustOpened => SelectsNearest']_vars

(* Errors *)

\* The exceptions of a defect: neither the user error Impossible nor the
\* SystemExit that quits the game.
Defect == last.exc \notin {"-", "Impossible", "SystemExit"}

\* C22: when processing an event raises a defect error, the top-level loop
\* catches it, appends a diagnostic to the message log and keeps the handler
\* that was active before the event; the process does not terminate and
\* the next event is processed by that handler.
C22_DefectIsLoggedAndHandlerKept ==
    [][/\ Defect' => /\ last'.outcome = "raised"
                     /\ last'.logged # <<>>
                     /\ last'.logged[Len(last'.logged)] = <<"Traceback", last'.exc>>
                     /\ handler' = handler /\ handler'.name # "SystemExit"
       /\ Defect => last'.from = handler.name]_vars

\* C22 witness: an event was processed by the handler in which the
\* previous event had raised a defect.
C22_Witness ==
    /\ Defect /\ last.exc = "IndexError" /\ handler.name = "EnchantEventHandler"
    /\ last.from = handler.name /\ engine.enchant_now

\* C23: every Impossible raised while an event is processed, by an
\* Action's perform() or directly by a modal handler, is caught by the
\* event handling layer: it does not reach the top-level loop, its message
\* is logged, no enemy acts and visibility is not recomputed.
C23_ImpossibleIsCaught ==
    /\ last.exc # "Impossible"
    /\ Failed => Len(last.logged) = 1 /\ last.acted = <<>> /\ last.fov = 0

\* C24 as the specification states it: when handling an event yields a
\* handler or nothing (a mode switch or a transaction inside a handler), no
\* Action is performed, no actor acts, visible and explored are not
\* recomputed and the turn counter is unchanged.
C24_NoActionNoTurn ==
    [][last'.outcome \in {"handler", "none"} =>
          /\ last'.action = "-" /\ last'.acted = <<>> /\ last'.fov = 0
          /\ game_map'.visible = game_map.visible /\ game_map'.explored = game_map.explored
          /\ monsters' = monsters
          /\ engine'.current_turn = engine.current_turn]_vars

\* C24, amended: the same, except for the confirmation of the town portal,
\* which returns the main handler after installing a new map and
\* recomputing visibility once; no Action is performed, no actor acts and
\* the turn counter is unchanged there too.
C24_NoActionNoTurnButPortal ==
    [][last'.outcome \in {"handler", "none"} =>
          /\ last'.action = "-" /\ last'.acted = <<>>
          /\ engine'.current_turn = engine.current_turn
          /\ IF last'.new_map
             THEN /\ handler.name = "TownPortalEventHandler" /\ last'.event.key = K_y
                  /\ last'.fov = 1
             ELSE /\ last'.fov = 0
                  /\ game_map'.visible = game_map.visible /\ game_map'.explored = game_map.explored
                  /\ monsters' = monsters]_vars

\* C24 witness: a sale, a transaction inside the shop-sell handler.
C24_Witness ==
    /\ last.from = "ShopSellEventHandler" /\ last.outcome = "none"
    /\ last.logged = <<"You sell the item.">> /\ player.gold > 0 /\ last.fov = 0

\* C25: when an Action was returned, the event is processed in the order
\* perform(), then one AI action of every non-player actor that is alive
\* when its turn comes, then one recomputation of visibility; there is no
\* AI action and no recomputation before perform() has completed, and none
\* when perform() failed.
C25_PerformThenEnemiesThenFov ==
    last.action # "-" =>
        IF Resolved
        THEN /\ Len(last.steps) = Len(last.acted) + 2
             /\ last.steps[1] = "perform" /\ last.steps[Len(last.steps)] = "fov"
             /\ \A i \in 2 .. (Len(last.steps) - 1) : last.steps[i] = "ai"
             /\ \A i, j \in 1 .. Len(last.acted) : last.acted[i].who = last.acted[j].who => i = j
             /\ \A m \in last.snapshot : monsters[m].is_alive /\ monsters[m].ai => m \in WhoActed
             /\ last.fov = 1
        ELSE last.steps = <<>> /\ last.acted = <<>> /\ last.fov = 0

\* C25 witness: a turn in which two enemies acted between the player's
\* action and the recomputation.
C25_Witness ==
    Resolved /\ last.steps = <<"perform", "ai", "ai", "fov">> /\ ~last.new_map

(* The enchanter *)

\* A key that selects an option of the enchanter's list in phase 2 (the
\* enchanter lists options for an equippable item), the option's cost and
\* the discount for the item's current bonus.
Choosing(event) ==
    /\ handler.name = "EnchantEventHandler" /\ engine.enchant_now
    /\ engine.enchanting_item # NoItem /\ equippable(items[engine.enchanting_item])
    /\ event.type = "KeyDown"
    /\ event.key - K_a \in 0 .. (Len(enchanter_options(items[engine.enchanting_item])) - 2)
Chosen(event) == enchanter_options(items[engine.enchanting_item])[event.key - K_a + 2]
Cost(option) ==
    IF option.formula = "square" THEN option.bonus * option.bonus * option.price
    ELSE (option.bonus + 2) * (option.bonus + 2) * option.price
Discount(option) ==
    items[engine.enchanting_item].bonus * items[engine.enchanting_item].bonus * option.price

\* C21: in enchant phase 2, for the chosen option with cost C and discount
\* D: if gold < C - D or D >= C the player's gold and the item's bonuses
\* are unchanged; otherwise gold decreases by exactly C - D and the item's
\* bonus becomes the option's bonus.  In both cases the handler returns to
\* phase 1 and stays active.
C21_EnchantChargesCostLessDiscount ==
    [][Choosing(last'.event) =>
          /\ IF \/ player.gold < Cost(Chosen(last'.event)) - Discount(Chosen(last'.event))
                \/ Discount(Chosen(last'.event)) >= Cost(Chosen(last'.event))
             THEN player'.gold = player.gold /\ items' = items
             ELSE /\ player'.gold = player.gold
                                      - (Cost(Chosen(last'.event)) - Discount(Chosen(last'.event)))
                  /\ items' = [items EXCEPT ![engine.enchanting_item].bonus = Chosen(last'.event).bonus]
          /\ handler' = handler /\ ~engine'.enchant_now
          /\ last'.exc = "-"]_vars

\* C21 witness: an enchanted item was enchanted again, with the other cost
\* formula, and the discount for its bonus was taken off the price.
C21_Witness ==
    /\ last.from = "EnchantEventHandler" /\ handler.name = "EnchantEventHandler"
    /\ last.event.key = K_c /\ last.logged = <<"Your item now gives the bonus.">>
    /\ ~engine.enchant_now /\ items[engine.enchanting_item].bonus = 1 /\ player.gold = 0
    /\ session = "forge"

\* An item the enchanter accepts: equippable, in no equipment slot, not
\* stackable; and a key of phase 1 that selects an inventory entry.
Eligible(item) ==
    /\ item # NoItem /\ equippable(items[item]) /\ ~can_stack(items[item])
    /\ item \notin Worn(State)
Offering(event) ==
    /\ handler.name = "EnchantEventHandler" /\ ~engine.enchant_now
    /\ event.type = "KeyDown" /\ event.key - K_a \in 0 .. (Len(player.inventory) - 1)
Offered(event) == player.inventory[event.key - K_a + 1]
InPhaseTwo == handler.name = "EnchantEventHandler" /\ engine.enchant_now
PhaseTwoItemEligible == InPhaseTwo => Eligible(engine.enchanting_item)

\* C27: the enchant handler is in phase 2 only for an eligible item;
\* selecting a worn, stackable or non-equippable item in phase 1 leaves
\* enchant_now, enchanting_item, gold and the item unchanged, logs one
\* message, raises nothing to the top level and keeps the handler.
C27_OnlyEligibleItemsAreEnchanted ==
    [][/\ PhaseTwoItemEligible'
       /\ Offering(last'.event) /\ ~Eligible(Offered(last'.event)) =>
             /\ engine' = engine /\ player' = player /\ items' = items
             /\ last'.exc = "-" /\ last'.outcome = "none"
             /\ Len(last'.logged) = 1
             /\ handler' = handler]_vars

(* Ownership *)

Entries(seq) == {seq[i] : i \in 1 .. Len(seq)}

\* C31: every non-empty equipment slot references an entry of the player's
\* main inventory, and no item is at once in the main inventory and in a
\* bag, whatever was sold, placed in the bag, taken from it or enchanted.
C31_WornItemsStayInInventory ==
    /\ Worn(State) \subseteq Entries(player.inventory)
    /\ Entries(player.inventory) \cap Entries(player.bag_inventory) = {}

\* C31 witness: the worn item was offered to the bag and refused.
C31_Witness ==
    /\ last.from = "PlaceInBagHandler" /\ Worn(State) # {}
    /\ last.event.key - K_a + 1 \in 1 .. Len(player.inventory)
    /\ player.inventory[last.event.key - K_a + 1] \in Worn(State)
    /\ last.logged = <<"You can't place something you are wearing in a bag.">>

(* Gold *)

Debited == {"You buy the item.", "You buy another item.", "Your item now gives the bonus."}

\* C38: the player's gold is never negative: a purchase or an enchantment
\* that is accepted debits at most the gold held, a sale only adds to it.
C38_GoldNeverNegative ==
    player.gold >= 0

\* C38 witness: an accepted purchase or enchantment has taken the last gold.
C38_Witness ==
    /\ last.from \in {"ShopBuyEventHandler", "EnchantEventHandler"}
    /\ last.logged # <<>> /\ last.logged[1] \in Debited
    /\ player.gold = 0

(* Capacity *)

\* C39: the player's main inventory never holds more entries than its
\* capacity, whatever is bought, taken from the bag, placed in it or sold:
\* a purchase or a take-from-bag on a full inventory adds no entry.
C39_InventoryWithinCapacity ==
    /\ [](Len(player.inventory) <= player.capacity)
    /\ [][/\ Len(player.inventory) >= player.capacity
           /\ handler.name \in {"ShopBuyEventHandler", "TakeFromBagHandler"}
           => player'.inventory = player.inventory]_vars

\* C39 witness: with the inventory full after a purchase, taking the item
\* out of the bag was refused.
C39_Witness ==
    /\ last.from = "TakeFromBagHandler"
    /\ last.logged = <<"You can't remove items from bags, inventory is full.">>
    /\ Len(player.inventory) = player.capacity /\ player.bag_inventory # <<>>
    /\ \E i \in 1 .. Len(player.inventory) : player.inventory[i] \in CloneIds

(* The cursor *)

Portal(event, key) ==
    handler.name = "TownPortalEventHandler" /\ event.type = "KeyDown" /\ event.key = key

\* C36: confirming the portal on a dungeon level L > 0 installs the town
\* (level 0) and remembers L; nothing but a portal changes the remembered
\* level, so after any stairs the next confirmation in town installs a
\* dungeon of level L and clears it; Escape changes neither map nor memory.
C36_PortalReturnsToRememberedLevel ==
    [][/\ Portal(last'.event, K_y) /\ game_map.dungeon_level > 0 =>
             /\ game_map'.kind = "town" /\ game_map'.dungeon_level = 0
             /\ engine'.last_level = game_map.dungeon_level
       /\ Portal(last'.event, K_y) /\ game_map.dungeon_level = 0 /\ engine.last_level > 0 =>
             /\ game_map'.kind = "dungeon" /\ game_map'.dungeon_level = engine.last_level
             /\ engine'.last_level = 0
       /\ Portal(last'.event, K_ESCAPE) =>
             /\ game_map' = game_map /\ engine'.last_level = engine.last_level
             /\ handler'.name = "MainGameEventHandler"
       /\ ~Portal(last'.event, K_y) => engine'.last_level = engine.last_level]_vars

\* C36 witness: the portal, confirmed in town, has brought the player back
\* to the dungeon level it was used on, and the memory is cleared.
C36_Witness ==
    /\ last.from = "TownPortalEventHandler" /\ last.event.key = K_y /\ last.new_map
    /\ game_map.kind = "dungeon" /\ game_map.dungeon_level > 0
    /\ engine.last_level = 0

(* Wealth *)

\* W: the gold held plus what the shop pays for every inventory entry.
RECURSIVE Resale(_, _)
Resale(its, inventory) ==
    IF inventory = <<>> THEN 0
    ELSE its[Head(inventory)].number_in_stack * (its[Head(inventory)].gold_value \div 2)
         + Resale(its, Tail(inventory))
W == player.gold + Resale(items, player.inventory)
Trading == handler.name \in {"ShopBuyEventHandler", "ShopSellEventHandler"}

\* C34: no single buy or sell operation increases W, the player's gold
\* plus stack_count x floor(gold_value / 2) over the inventory entries,
\* also when several entries carry the name of a stackable shop item.
C34_TradingCreatesNoWealth ==
    [][Trading => W' <= W]_vars

(* The shared flag *)

\* C32: whenever the main handler is the active handler, enchant_now is
\* false: however the rename or the enchant handler was left, a later
\* inventory, rename or enchant handler starts in its selection phase.
C32_MainHandlerMeansFlagCleared ==
    handler.name = "MainGameEventHandler" => ~engine.enchant_now

(* Death *)

Dead == ~player.is_alive
AfterDeath == {"GameOverEventHandler", "MainGameEventHandler", "SystemExit"}

MenuOf(event) ==
    LET key == event.key
        shift == IsShift(event.mod)
    IN CASE key = K_v -> "HistoryViewer"
         [] key = K_i -> "InventoryActivateHandler"
         [] key = K_d -> "InventoryDropHandler"
         [] key = K_e -> "EquipmentHandler"
         [] key = K_SLASH /\ shift -> "HelpMenuEventHandler"
         [] key = K_SLASH /\ ~shift -> "LookHandler"
         [] key = K_c -> "CharacterScreenEventHandler"
         [] key = K_a -> "LevelUpMenuEventHandler"
         [] key = K_f -> "FeatSelectionEventHandler"
         [] key = K_r -> "RenameItemEventHandler"
         [] key = K_s /\ shift -> "CastSpellHandler"
         [] key = K_s /\ ~shift -> "SaveGameEventHandler"
         [] key = K_t -> "SingleRangedAttackHandler"
         [] key = K_b /\ shift -> "BuffListHandler"
         [] OTHER -> "-"
InMain(event) == handler.name = "MainGameEventHandler" /\ event.type = "KeyDown"

\* C30: in the main handler a key press stays in the main handler, or
\* produces an Action handed to the turn engine, or makes a modal handler
\* active; each dedicated menu key makes its modal handler active without
\* raising to the top level and without costing a turn.
C30_MainKeysOpenTheirMenus ==
    [][InMain(last'.event) =>
         /\ last'.outcome \in {"none", "turn", "impossible", "handler"}
         /\ last'.outcome = "none" => handler' = handler /\ last'.action = "-"
         /\ last'.outcome = "handler" => handler' # handler /\ last'.action = "-"
         /\ last'.outcome \in {"turn", "impossible"} => last'.action # "-"
         /\ player.is_alive /\ MenuOf(last'.event) # "-" =>
               /\ handler'.name = MenuOf(last'.event)
               /\ last'.outcome = "handler" /\ last'.exc = "-"
               /\ last'.acted = <<>> /\ engine'.current_turn = engine.current_turn]_vars

(* Typing *)

\* Text entry: the rename handler while enchant_now is set, and the
\* text-entry handler; the text typed so far.
Typing ==
    \/ handler.name = "RenameItemEventHandler" /\ engine.enchant_now
    \/ handler.name = "TextEntryEventHandler"
Typed ==
    IF handler.name = "TextEntryEventHandler" THEN handler.cb
    ELSE items[engine.enchanting_item].name
Letter(event) == event.key - K_a \in 0 .. 25

C17_LevelUpCarriesSurplus ==
    [][/\ handler.name = "LevelUpMenuEventHandler"
       /\ last'.event.type = "KeyDown" /\ last'.event.key \in {K_ESCAPE, K_q}
       /\ player.current_xp >= experience_to_next_level(State)
       => /\ player'.current_level = player.current_level + 1
          /\ player'.hp = player.max_hp /\ player'.mana = player.max_mana
          /\ player'.current_xp = player.current_xp - experience_to_next_level(State)
          /\ player.current_xp = experience_to_next_level(State) => player'.current_xp = 0]_vars

\* C17 witness: a level was granted to a wounded player whose XP covered
\* two levels; the surplus still covers the next level.
C17_Witness ==
    /\ last.from = "LevelUpMenuEventHandler" /\ handler.name = "MainGameEventHandler"
    /\ player.current_level = 2 /\ player.current_xp = 1950
    /\ player.current_xp >= experience_to_next_level(State)
    /\ player.hp = player.max_hp /\ player.mana = player.max_mana

\* The level-up handler is confirmed: with enough experience the level N
\* is granted, with its feat and stat points.
Confirming(event) ==
    /\ handler.name = "LevelUpMenuEventHandler"
    /\ event.type = "KeyDown" /\ event.key \in {K_ESCAPE, K_q}
Enough == player.current_xp >= experience_to_next_level(State)
FeatsGranted(class, N) ==
    (IF class = "Fighter" \/ N % 2 = 1 THEN 1 ELSE 0)
    + (IF class = "Wizard" /\ N % 5 = 0 THEN 1 ELSE 0)
StatsGranted(N) == IF N % 4 = 0 THEN 1 ELSE 0

\* C29: an accepted level-up to level N gives a Fighter one feat point,
\* any other class one feat point iff N is odd, a Wizard one more iff 5
\* divides N, and every class one stat point iff 4 divides N; confirming
\* without enough XP changes no player state and returns to the main handler.
C29_LevelUpGrants ==
    [][Confirming(last'.event) =>
         /\ handler'.name = "MainGameEventHandler"
         /\ Enough =>
               /\ player'.feats_to_take
                    = player.feats_to_take
                      + FeatsGranted(player.hit_dice, player.current_level + 1)
               /\ player'.stats_to_take
                    = player.stats_to_take + StatsGranted(player.current_level + 1)
               /\ player'.hit_dice = player.hit_dice
         /\ ~Enough => player' = player]_vars

\* C29 witness: a Wizard has just reached level 5 with the two feat points
\* of that level, the one of level 3 and the stat point of level 4.
C29_Witness ==
    /\ last.from = "LevelUpMenuEventHandler" /\ last.event.key \in {K_ESCAPE, K_q}
    /\ player.hit_dice = "Wizard" /\ player.current_level = 5
    /\ player.feats_to_take = 4 /\ player.stats_to_take = 1

\* The feats the feat-selection handler lists, and the two kinds of
\* accepted selection: a listed feat's letter while a feat point is
\* pending, otherwise an ability score's letter while a stat point is.
FeatsListed ==
    Restrict(FeatOrder, (taken_once_feats \ {f \in DOMAIN player.combat_feats : player.combat_feats[f] > 0})
                            \cup taken_multiple_feats)
FeatChosen(event) ==
    /\ handler.name = "FeatSelectionEventHandler" /\ event.type = "KeyDown"
    /\ player.feats_to_take > 0 /\ event.key - K_a \in 0 .. (Len(FeatsListed) - 1)
StatChosen(event) ==
    /\ handler.name = "FeatSelectionEventHandler" /\ event.type = "KeyDown"
    /\ ~FeatChosen(event)
    /\ player.stats_to_take > 0 /\ event.key - K_a - Len(FeatsListed) \in 0 .. 5

\* C20: in the feat-selection handler an accepted selection of a feat
\* consumes exactly one feat point, an accepted selection of an ability
\* score exactly one stat point, and the handler stays active after either;
\* it stops being the active handler only on Escape or q.
C20_SelectionKeepsHandler ==
    [][/\ FeatChosen(last'.event) =>
             /\ player'.feats_to_take = player.feats_to_take - 1
             /\ player'.stats_to_take = player.stats_to_take
             /\ handler' = handler
       /\ StatChosen(last'.event) =>
             /\ player'.stats_to_take = player.stats_to_take - 1
             /\ player'.feats_to_take = player.feats_to_take
             /\ handler' = handler
       /\ handler.name = "FeatSelectionEventHandler" /\ handler' # handler =>
             last'.event.type = "KeyDown" /\ last'.event.key \in {K_ESCAPE, K_q}]_vars

(* Floors *)

\* C18: after every floor transition (stairs or town portal) the map is the
\* town exactly when its level index is 0: in every reachable state the
\* current map is a town map iff dungeon_level = 0.
C18_TownIffLevelZero == (game_map.kind = "town") <=> (game_map.dungeon_level = 0)

====
